---- MODULE Spec2Model ----
(***************************************************************************)
(* twigs - GCP CIS benchmark, section 2 (logging and monitoring):          *)
(* src/twigs/gcp_cis_tool/check2.py.                                       *)
(*                                                                         *)
(* run_checks executes the eleven rule routines check2_1 .. check2_11 one  *)
(* after another.  Every routine reads the cloud state through the         *)
(* accessor module gcp_cis_utils, accumulates violation lines in a local   *)
(* list `details` and returns an issue (create_issue) or None.             *)
(*                                                                         *)
(* twigs - tagging of the discovered assets: add_asset_tags and            *)
(* add_asset_criticality_tag of src/twigs/twigs.py, as main calls them.    *)
(*                                                                         *)
(* twigs - the rest of main: the push of the assets (push_asset_to_TW,     *)
(* push_assets_to_TW), the policy job and its polling loop, run_scan and   *)
(* the exit; and the inventory of the dast mode, src/twigs/dast.py.  The   *)
(* services main talks to are given by what they answer (`server`), and    *)
(* what main asks of them is recorded in `log`.                            *)
(*                                                                         *)
(* Representation of Python values:                                        *)
(*  - a dict is a record; a key is present iff it is in the DOMAIN;        *)
(*  - a list is a sequence; where lists are shared and changed in place    *)
(*    (the tags of the assets), a list is an object of `heap` and a value  *)
(*    that holds it is a reference to that object;                         *)
(*  - scope ids, sink filters, metric types and condition filters are      *)
(*    only compared and concatenated: they are strings;                    *)
(*  - exempted members and sink destinations are inspected character by    *)
(*    character (startswith, split, slicing): they are sequences of        *)
(*    one-character strings;                                               *)
(*  - log metric filters are stripped and have their newlines replaced:    *)
(*    they are sequences of atoms, an atom being one whitespace character  *)
(*    or one maximal run of non-whitespace characters, so that two filters *)
(*    are equal as strings iff their atom sequences are equal;             *)
(*  - a value that may be None is None or Given(v); a local that is not   *)
(*    assigned yet is Unbound;                                             *)
(*  - "fmt % args" is the record of the format string and its arguments;   *)
(*  - "\n".join(lines) is the sequence of the lines with "\n" between.     *)
(***************************************************************************)
EXTENDS Integers, Sequences, FiniteSets, TLC

VARIABLES
  \* the cloud state, as the accessor gcp_cis_utils reports it
  orgs,           \* get_all_organizations(): list of organization ids
  folders,        \* get_all_folders(): list of folder ids
  projects,       \* get_logging_enabled_projects(): list of project ids
  iam,            \* get_iam_policies_by_projects(): list of [p, doc], in key order
  sinks,          \* "logging sinks list" of a scope id: list of sinks
  metrics,        \* "beta logging metrics list" of a project: list of metrics
  policies,       \* "alpha monitoring policies list" of a project: list of policies
  probe,          \* "gsutil retention get" of a bucket reference: set of marker substrings
  \* run_checks
  pc,             \* index of the next statement of run_checks (1..11), Returned or Raised
  config_issues,  \* the list run_checks builds and returns
  ret,            \* ret[k]: what routine k returned (NotRun before it ran)
  details,        \* details[k]: the local list `details` of routine k when it ended
  calls,          \* the accessor calls issued so far, in order, tagged with the rule
  \* main of twigs.py, from get_inventory to the tagging of the assets
  mpc,            \* the statement main is at
  args,           \* the parsed command line: tag_critical and tag
  assets,         \* the list of assets get_inventory returned
  heap,           \* the list objects of the tags: heap[a] is the list at address a
  before,         \* the tags of the assets and args.tag when the tagging starts
  \* main of twigs.py, from the push of the assets to the exit
  server,         \* what the services main talks to will answer
  log,            \* the requests and library calls issued so far, in order
  asset_id_list,  \* the local asset_id_list of main: Unbound, or Given(the list)
  push_i,         \* the index of the asset push_assets_to_TW is at
  pj_json,        \* the local pj_json of main
  exit_code,      \* the local exit_code of main
  exited          \* the exit status of the process (None while it runs)

env == <<orgs, folders, projects, iam, sinks, metrics, policies, probe>>
run_vars == <<pc, config_issues, ret, details, calls>>
main_vars == <<mpc, args, assets, heap, before>>
flow_vars == <<server, log, asset_id_list, push_i, pj_json, exit_code, exited>>
vars == <<orgs, folders, projects, iam, sinks, metrics, policies, probe,
          pc, config_issues, ret, details, calls,
          mpc, args, assets, heap, before,
          server, log, asset_id_list, push_i, pj_json, exit_code, exited>>

----------------------------------------------------------------------------
(* Python values *)

\* Python's None, as a routine's return value
None == [none |-> TRUE]

\* ret[k] before routine k has run
NotRun == [notrun |-> TRUE]

\* key in dict
Has(d, k) == k \in DOMAIN d

\* the characters of a few literals
Chars_user == <<"u", "s", "e", "r", ":">>
Chars_group == <<"g", "r", "o", "u", "p", ":">>
Chars_storage ==
  <<"s", "t", "o", "r", "a", "g", "e", ".", "g", "o", "o", "g", "l", "e",
    "a", "p", "i", "s", ".", "c", "o", "m", "/">>
Chars_gs == <<"g", "s", ":", "/", "/">>
Chars_bigquery ==
  <<"b", "i", "g", "q", "u", "e", "r", "y", ".", "g", "o", "o", "g", "l", "e",
    "a", "p", "i", "s", ".", "c", "o", "m", "/">>

\* the string a sequence of characters spells
RECURSIVE Str(_)
Str(s) == IF s = <<>> THEN "" ELSE Head(s) \o Str(Tail(s))

\* s.startswith(prefix)
StartsWith(s, prefix) ==
  Len(s) >= Len(prefix) /\ SubSeq(s, 1, Len(prefix)) = prefix

\* s.split(sep) for a one-character sep: the maximal sep-free pieces, in order
RECURSIVE Split(_, _)
Split(s, sep) ==
  IF \A i \in 1..Len(s) : s[i] # sep
  THEN <<s>>
  ELSE LET i == CHOOSE n \in 1..Len(s) : s[n] = sep /\ \A j \in 1..(n - 1) : s[j] # sep
       IN  <<SubSeq(s, 1, i - 1)>> \o Split(SubSeq(s, i + 1, Len(s)), sep)

\* the whitespace atoms str.strip() removes
Whitespace == {" ", "\n", "\t", "\r"}

\* s.strip() on a sequence of atoms
RECURSIVE LStrip(_)
LStrip(s) == IF s # <<>> /\ Head(s) \in Whitespace THEN LStrip(Tail(s)) ELSE s
RECURSIVE RStrip(_)
RStrip(s) ==
  IF s # <<>> /\ s[Len(s)] \in Whitespace THEN RStrip(SubSeq(s, 1, Len(s) - 1)) ELSE s
Strip(s) == RStrip(LStrip(s))

\* s.replace(old, new) for one-atom old and new
Replace(s, old, new) == [i \in 1..Len(s) |-> IF s[i] = old THEN new ELSE s[i]]

\* fmt % args
Fmt(fmt, values) == [msg |-> fmt, args |-> values]

\* "\n".join(lines)
RECURSIVE JoinNL(_)
JoinNL(lines) ==
  IF lines = <<>> THEN <<>>
  ELSE IF Len(lines) = 1 THEN <<lines[1]>>
  ELSE <<lines[1], "\n">> \o JoinNL(Tail(lines))

\* one accessor call: the function of gcp_cis_utils and its argument
Call(fn, arg) == [fn |-> fn, arg |-> arg]
NoArg == Fmt("", <<>>)

\* how a routine ended: the value it returned, its list `details`, the accessor
\* calls it issued, and whether it ended by raising an exception (a KeyError on
\* a missing key) instead of returning
Result(r, d, c) == [ret |-> r, details |-> d, calls |-> c, raised |-> FALSE]
Raise(d, c) == [ret |-> NotRun, details |-> d, calls |-> c, raised |-> TRUE]

----------------------------------------------------------------------------
(* gcp_cis_utils: the accessor and the issue helpers (not in src/) *)

get_all_organizations == orgs
get_all_folders == folders
get_logging_enabled_projects == projects
get_iam_policies_by_projects == iam

\* gcp_cis_utils.create_issue: the Finding record
create_issue(id, title, dets, severity, reference, remediation) ==
  [id |-> id, title |-> title, details |-> dets, severity |-> severity,
   reference |-> reference, remediation |-> remediation]

\* gcp_cis_utils.append_issue: the list with the issue appended, None skipped
append_issue(issues, issue) ==
  IF issue = None THEN issues ELSE Append(issues, issue)

----------------------------------------------------------------------------
(* check2_1: Cloud Audit Logging *)

Msg_2_1_NotConfigured == "Cloud Audit Logging is not configured for project [%s]"
Msg_2_1_NotAllServices ==
  "Cloud Audit Logging is not configured for all services for project [%s]"
Msg_2_1_NotProperly == "Cloud Audit Logging is not configured properly for project [%s]"
Msg_2_1_Exempted ==
  "Audit configuration has exempted member [%s] for log type [%s] for project [%s]"
Msg_2_1_NoDataRead ==
  "Cloud audit logging configuration is not enabled for DATA_READ operation for  project [%s]"
Msg_2_1_NoDataWrite ==
  "Cloud audit logging configuration is not enabled for DATA_WRITE operation for  project [%s]"

\* alc.get('logType') as "%s" prints it
LogTypeStr(alc) == IF Has(alc, "logType") THEN alc.logType ELSE "None"

\* for em in ems: the exemption lines of one auditLogConfigs item
RECURSIVE ExemptedLines(_, _, _)
ExemptedLines(ems, alc, p) ==
  IF ems = <<>> THEN <<>>
  ELSE (IF StartsWith(Head(ems), Chars_user)
        THEN <<Fmt(Msg_2_1_Exempted,
                   <<Str(Split(Head(ems), ":")[2]), LogTypeStr(alc), p>>)>>
        ELSE <<>>)
       \o ExemptedLines(Tail(ems), alc, p)

\* (mutant) both branches set lt_dr_found
RECURSIVE ScanAuditLogConfigs_one_flag(_, _, _)
ScanAuditLogConfigs_one_flag(alcs, p, st) ==
  IF alcs = <<>> THEN st
  ELSE LET alc == Head(alcs)
           isDR == Has(alc, "logType") /\ alc.logType = "DATA_READ"
           isDW == ~isDR /\ Has(alc, "logType") /\ alc.logType = "DATA_WRITE"
           ems == IF Has(alc, "exemptedMembers")
                  THEN ExemptedLines(alc.exemptedMembers, alc, p) ELSE <<>>
       IN  ScanAuditLogConfigs_one_flag(Tail(alcs), p,
             [dr |-> st.dr \/ isDR \/ isDW, dw |-> st.dw, lines |-> st.lines \o ems])

\* for alc in alcs: st is [dr, dw, lines], the two flags and the lines appended
RECURSIVE ScanAuditLogConfigs(_, _, _)
ScanAuditLogConfigs(alcs, p, st) ==
  IF alcs = <<>> THEN st
  ELSE LET alc == Head(alcs)
           isDR == Has(alc, "logType") /\ alc.logType = "DATA_READ"
           isDW == ~isDR /\ Has(alc, "logType") /\ alc.logType = "DATA_WRITE"
           ems == IF Has(alc, "exemptedMembers")
                  THEN ExemptedLines(alc.exemptedMembers, alc, p) ELSE <<>>
       IN  ScanAuditLogConfigs(Tail(alcs), p,
             [dr |-> st.dr \/ isDR, dw |-> st.dw \/ isDW, lines |-> st.lines \o ems])

\* (mutant) a missing auditLogConfigs is taken for an empty list
AuditConfigLines_alcs_default(ac, p) ==
  IF ~Has(ac, "service") \/ ac.service # "allServices"
  THEN <<Fmt(Msg_2_1_NotAllServices, <<p>>)>>
  ELSE LET st == ScanAuditLogConfigs(
                   IF Has(ac, "auditLogConfigs") THEN ac.auditLogConfigs ELSE <<>>, p,
                   [dr |-> FALSE, dw |-> FALSE, lines |-> <<>>])
       IN  st.lines
           \o (IF st.dr = FALSE THEN <<Fmt(Msg_2_1_NoDataRead, <<p>>)>> ELSE <<>>)
           \o (IF st.dw = FALSE THEN <<Fmt(Msg_2_1_NoDataWrite, <<p>>)>> ELSE <<>>)

\* the body of "for ac in acs": the lines one auditConfigs entry appends
AuditConfigLines(ac, p) ==
  IF ~Has(ac, "service") \/ ac.service # "allServices"
  THEN <<Fmt(Msg_2_1_NotAllServices, <<p>>)>>
  ELSE IF ~Has(ac, "auditLogConfigs")
  THEN <<Fmt(Msg_2_1_NotProperly, <<p>>)>>
  ELSE LET st == ScanAuditLogConfigs(ac.auditLogConfigs, p,
                   [dr |-> FALSE, dw |-> FALSE, lines |-> <<>>])
       IN  st.lines
           \o (IF st.dr = FALSE THEN <<Fmt(Msg_2_1_NoDataRead, <<p>>)>> ELSE <<>>)
           \o (IF st.dw = FALSE THEN <<Fmt(Msg_2_1_NoDataWrite, <<p>>)>> ELSE <<>>)

RECURSIVE AuditConfigsLines(_, _)
AuditConfigsLines(acs, p) ==
  IF acs = <<>> THEN <<>>
  ELSE AuditConfigLines(Head(acs), p) \o AuditConfigsLines(Tail(acs), p)

\* (mutant) a missing auditConfigs is taken for an empty list
ProjectAuditLines_none_as_empty(p, out_json) ==
  IF ~Has(out_json, "auditConfigs") THEN <<>>
  ELSE AuditConfigsLines(out_json.auditConfigs, p)

\* the body of "for p in iam_policies_by_project.keys()"
ProjectAuditLines(p, out_json) ==
  IF ~Has(out_json, "auditConfigs")
  THEN <<Fmt(Msg_2_1_NotConfigured, <<p>>)>>
  ELSE AuditConfigsLines(out_json.auditConfigs, p)

RECURSIVE AuditLines(_)
AuditLines(iam_policies_by_project) ==
  IF iam_policies_by_project = <<>> THEN <<>>
  ELSE ProjectAuditLines(Head(iam_policies_by_project).p, Head(iam_policies_by_project).doc)
       \o AuditLines(Tail(iam_policies_by_project))

\* check2_1's return statement
check2_1_return(dets) ==
  IF Len(dets) > 0
  THEN create_issue("cis-gcp-bench-check-2.1",
         "2.1 [Level 1] Ensure that Cloud Audit Logging is configured properly across all services and all users from a project (Scored)",
         JoinNL(dets), "4", "", "")
  ELSE None

check2_1 ==
  LET dets == AuditLines(get_iam_policies_by_projects)
  IN  Result(check2_1_return(dets), dets, <<Call("get_iam_policies_by_projects", NoArg)>>)

----------------------------------------------------------------------------
(* check2_2: sinks for all log entries *)

Cmd_sinks_org == "logging sinks list --organization=%s"
Cmd_sinks_folder == "logging sinks list --folder=%s"
Cmd_sinks_project == "logging sinks list --project=%s"
Msg_2_2 == "Sinks are not configured for all log entries for project [%s]"

\* gcp_cis_utils.run_gcloud_cmd(cmd % id): the call, and the parsed listing
run_gcloud_cmd(cmd, id) == Call("run_gcloud_cmd", Fmt(cmd, <<id>>))

\* (mutant) only the first sink of the listing is looked at
FirstCatchAll_first_only(out_json) ==
  IF out_json = <<>> THEN "none"
  ELSE IF ~Has(Head(out_json), "filter") THEN "raise"
  ELSE IF Head(out_json).filter = "(empty filter)" THEN "found"
  ELSE "none"

\* "for entry in out_json" of the organization and folder loops, which returns
\* at the first catch-all sink: "found", "raise" (an entry without 'filter'
\* before any catch-all sink) or "none"
RECURSIVE FirstCatchAll(_)
FirstCatchAll(out_json) ==
  IF out_json = <<>> THEN "none"
  ELSE IF ~Has(Head(out_json), "filter") THEN "raise"
  ELSE IF Head(out_json).filter = "(empty filter)" THEN "found"
  ELSE FirstCatchAll(Tail(out_json))

\* "for o in orgs" and "for f in folders": the outcome and the calls issued
RECURSIVE ScopeWalk(_, _, _)
ScopeWalk(ids, cmd, cs) ==
  IF ids = <<>> THEN [outcome |-> "none", calls |-> cs]
  ELSE LET c == Append(cs, run_gcloud_cmd(cmd, Head(ids)))
           r == FirstCatchAll(sinks[Head(ids)])
       IN  IF r = "none" THEN ScopeWalk(Tail(ids), cmd, c)
           ELSE [outcome |-> r, calls |-> c]

\* (mutant) only the first sink of the project's listing is looked at
AnyCatchAll_first_only(out_json, sink_found) ==
  IF out_json = <<>> THEN (IF sink_found THEN "found" ELSE "none")
  ELSE IF ~Has(Head(out_json), "filter") THEN "raise"
  ELSE IF sink_found \/ Head(out_json).filter = "(empty filter)" THEN "found"
  ELSE "none"

\* "for entry in out_json" of the project loop, which reads every entry
RECURSIVE AnyCatchAll(_, _)
AnyCatchAll(out_json, sink_found) ==
  IF out_json = <<>> THEN (IF sink_found THEN "found" ELSE "none")
  ELSE IF ~Has(Head(out_json), "filter") THEN "raise"
  ELSE AnyCatchAll(Tail(out_json),
                   sink_found \/ Head(out_json).filter = "(empty filter)")

\* "for p in projects": st is [details, calls, raised]
RECURSIVE ProjectSinkWalk(_, _)
ProjectSinkWalk(ps, st) ==
  IF ps = <<>> THEN st
  ELSE LET p == Head(ps)
           c == Append(st.calls, run_gcloud_cmd(Cmd_sinks_project, p))
           r == AnyCatchAll(sinks[p], FALSE)
       IN  IF r = "raise"
           THEN [details |-> st.details, calls |-> c, raised |-> TRUE]
           ELSE ProjectSinkWalk(Tail(ps),
                  [details |-> IF r = "none"
                               THEN Append(st.details, Fmt(Msg_2_2, <<p>>))
                               ELSE st.details,
                   calls |-> c, raised |-> FALSE])

\* check2_2's return statement after the project loop
check2_2_return(dets) ==
  IF Len(dets) > 0
  THEN create_issue("cis-gcp-bench-check-2.2",
         "2.2 [Level 1] Ensure that sinks are configured for all log entries (Scored)",
         JoinNL(dets), "4", "", "")
  ELSE None

\* the organization loop of check2_2
check2_2_orgs ==
  ScopeWalk(get_all_organizations, Cmd_sinks_org, <<Call("get_all_organizations", NoArg)>>)

\* the folder loop of check2_2, entered with the calls cs issued before it
check2_2_folders(cs) ==
  ScopeWalk(get_all_folders, Cmd_sinks_folder, Append(cs, Call("get_all_folders", NoArg)))

\* the project loop of check2_2, entered with the calls cs issued before it
check2_2_projects(cs) ==
  ProjectSinkWalk(get_logging_enabled_projects,
    [details |-> <<>>, calls |-> Append(cs, Call("get_logging_enabled_projects", NoArg)),
     raised |-> FALSE])

\* (mutant) the three levels are all listed before the catch-all sinks are
\* looked for
check2_2_lists_all ==
  LET o == check2_2_orgs
      f == check2_2_folders(o.calls)
      st == check2_2_projects(f.calls)
  IN  IF o.outcome = "found" \/ f.outcome = "found" THEN Result(None, <<>>, st.calls)
      ELSE IF o.outcome = "raise" \/ f.outcome = "raise" \/ st.raised
      THEN Raise(st.details, st.calls)
      ELSE Result(check2_2_return(st.details), st.details, st.calls)

check2_2 ==
  LET o == check2_2_orgs
  IN  IF o.outcome = "found" THEN Result(None, <<>>, o.calls)
      ELSE IF o.outcome = "raise" THEN Raise(<<>>, o.calls)
      ELSE LET f == check2_2_folders(o.calls)
           IN  IF f.outcome = "found" THEN Result(None, <<>>, f.calls)
               ELSE IF f.outcome = "raise" THEN Raise(<<>>, f.calls)
               ELSE LET st == check2_2_projects(f.calls)
                    IN  IF st.raised THEN Raise(st.details, st.calls)
                        ELSE Result(check2_2_return(st.details), st.details, st.calls)

----------------------------------------------------------------------------
(* check2_3: retention policies on log buckets *)

Cmd_retention == "gsutil retention get %s 2>/dev/null"
Msg_2_3_NoPolicy == "No retention policy is configured for log bucket [%s]"
Msg_2_3_NotLocked == "Retention policy is not locked for log bucket [%s]"

\* gcp_cis_utils.run_cmd("gsutil retention get ..."): the output, as the set of
\* the marker substrings it contains
run_cmd_output(logbucket) == probe[Str(logbucket)]

\* (mutant) the second test is an elif of the first
_check_bucket_retention_policy_elif(logbucket, st) ==
  LET output == run_cmd_output(logbucket)
      d1 == IF "has no Retention Policy" \in output
            THEN Append(st.details, Fmt(Msg_2_3_NoPolicy, <<Str(logbucket)>>))
            ELSE IF "Retention Policy (UNLOCKED)" \in output
            THEN Append(st.details, Fmt(Msg_2_3_NotLocked, <<Str(logbucket)>>))
            ELSE st.details
  IN  [details |-> d1,
       calls |-> Append(st.calls, Call("run_cmd", Fmt(Cmd_retention, <<Str(logbucket)>>))),
       raised |-> FALSE]

\* st is [details, calls, raised]
_check_bucket_retention_policy(logbucket, st) ==
  LET output == run_cmd_output(logbucket)
      d1 == IF "has no Retention Policy" \in output
            THEN Append(st.details, Fmt(Msg_2_3_NoPolicy, <<Str(logbucket)>>))
            ELSE st.details
      d2 == IF "Retention Policy (UNLOCKED)" \in output
            THEN Append(d1, Fmt(Msg_2_3_NotLocked, <<Str(logbucket)>>))
            ELSE d1
  IN  [details |-> d2,
       calls |-> Append(st.calls, Call("run_cmd", Fmt(Cmd_retention, <<Str(logbucket)>>))),
       raised |-> FALSE]

\* logbucket = "gs://" + entry['destination'][23:]
LogBucket(destination) ==
  Chars_gs \o SubSeq(destination, Len(Chars_storage) + 1, Len(destination))

\* "for entry in out_json" of check2_3
RECURSIVE SinkBuckets(_, _)
SinkBuckets(out_json, st) ==
  IF out_json = <<>> THEN st
  ELSE IF ~Has(Head(out_json), "destination")
  THEN [details |-> st.details, calls |-> st.calls, raised |-> TRUE]
  ELSE SinkBuckets(Tail(out_json),
         IF StartsWith(Head(out_json).destination, Chars_storage)
         THEN _check_bucket_retention_policy(LogBucket(Head(out_json).destination), st)
         ELSE st)

\* "for o in orgs", "for f in folders", "for p in projects" of check2_3
RECURSIVE ScopeBuckets(_, _, _)
ScopeBuckets(ids, cmd, st) ==
  IF ids = <<>> THEN st
  ELSE LET c == [st EXCEPT !.calls = Append(st.calls, run_gcloud_cmd(cmd, Head(ids)))]
           s == SinkBuckets(sinks[Head(ids)], c)
       IN  IF s.raised THEN s ELSE ScopeBuckets(Tail(ids), cmd, s)

check2_3_return(dets) ==
  IF Len(dets) > 0
  THEN create_issue("cis-gcp-bench-check-2.3",
         "2.3 [Level 1] Ensure that retention policies on log buckets are configured using Bucket Lock (Scored)",
         JoinNL(dets), "4", "", "")
  ELSE None

check2_3 ==
  LET s0 == [details |-> <<>>, calls |-> <<Call("get_all_organizations", NoArg)>>,
             raised |-> FALSE]
      s1 == ScopeBuckets(get_all_organizations, Cmd_sinks_org, s0)
      s2 == ScopeBuckets(get_all_folders, Cmd_sinks_folder,
              [s1 EXCEPT !.calls = Append(s1.calls, Call("get_all_folders", NoArg))])
      s3 == ScopeBuckets(get_logging_enabled_projects, Cmd_sinks_project,
              [s2 EXCEPT !.calls = Append(s2.calls, Call("get_logging_enabled_projects", NoArg))])
  IN  IF s1.raised THEN Raise(s1.details, s1.calls)
      ELSE IF s2.raised THEN Raise(s2.details, s2.calls)
      ELSE IF s3.raised THEN Raise(s3.details, s3.calls)
      ELSE Result(check2_3_return(s3.details), s3.details, s3.calls)

----------------------------------------------------------------------------
(* _check_log_metric_filter_and_alerts: log metric filter and alert policy *)

Cmd_metrics == "beta logging metrics list --project=%s"
Cmd_policies == "alpha monitoring policies list --project=%s"

\* "metric.type=\"" + mdt + "\""
MetricTypeFilter(mdt) == "metric.type=\"" \o mdt \o "\""

\* (mutant) the condition loop without "and entry_2['enabled']"
RECURSIVE ScanConditions_ignore_enabled(_, _, _, _)
ScanConditions_ignore_enabled(conds, entry_2, mdt, st) ==
  IF conds = <<>> THEN st
  ELSE LET cond == Head(conds)
       IN  IF ~Has(cond, "conditionThreshold") THEN [found |-> st.found, raised |-> TRUE]
           ELSE IF ~Has(cond.conditionThreshold, "filter")
           THEN [found |-> st.found, raised |-> TRUE]
           ELSE ScanConditions_ignore_enabled(Tail(conds), entry_2, mdt,
                  [found |-> st.found \/ cond.conditionThreshold.filter = MetricTypeFilter(mdt),
                   raised |-> FALSE])

\* "for cond in entry_2['conditions']": st is [found, raised]
RECURSIVE ScanConditions(_, _, _, _)
ScanConditions(conds, entry_2, mdt, st) ==
  IF conds = <<>> THEN st
  ELSE LET cond == Head(conds)
       IN  IF ~Has(cond, "conditionThreshold") THEN [found |-> st.found, raised |-> TRUE]
           ELSE IF ~Has(cond.conditionThreshold, "filter")
           THEN [found |-> st.found, raised |-> TRUE]
           ELSE IF cond.conditionThreshold.filter = MetricTypeFilter(mdt)
           THEN IF ~Has(entry_2, "enabled") THEN [found |-> st.found, raised |-> TRUE]
                ELSE ScanConditions(Tail(conds), entry_2, mdt,
                       [found |-> st.found \/ entry_2.enabled, raised |-> FALSE])
           ELSE ScanConditions(Tail(conds), entry_2, mdt, st)

\* "for entry_2 in out_json_2": st is [found, raised]
RECURSIVE ScanPolicies(_, _, _)
ScanPolicies(out_json_2, mdt, st) ==
  IF out_json_2 = <<>> THEN st
  ELSE IF ~Has(Head(out_json_2), "conditions") THEN [found |-> st.found, raised |-> TRUE]
  ELSE LET s == ScanConditions(Head(out_json_2).conditions, Head(out_json_2), mdt, st)
       IN  IF s.raised THEN s ELSE ScanPolicies(Tail(out_json_2), mdt, s)

\* (mutant) the filter is not stripped before the newlines are replaced
NormalizeFilter_no_strip(filter) == Replace(filter, "\n", " ")

\* mf = entry['filter'].strip().replace('\n',' ')
NormalizeFilter(filter) == Replace(Strip(filter), "\n", " ")

\* "for entry in out_json": st is [found, calls, raised]
RECURSIVE ScanMetrics(_, _, _, _)
ScanMetrics(out_json, p, in_filter, st) ==
  IF out_json = <<>> THEN st
  ELSE LET entry == Head(out_json)
       IN  IF ~Has(entry, "filter") THEN [st EXCEPT !.raised = TRUE]
           ELSE IF NormalizeFilter(entry.filter) # in_filter
           THEN ScanMetrics(Tail(out_json), p, in_filter, st)
           ELSE IF ~Has(entry, "metricDescriptor") THEN [st EXCEPT !.raised = TRUE]
           ELSE IF ~Has(entry.metricDescriptor, "type") THEN [st EXCEPT !.raised = TRUE]
           ELSE LET c == Append(st.calls, run_gcloud_cmd(Cmd_policies, p))
                    s == ScanPolicies(policies[p], entry.metricDescriptor.type,
                           [found |-> st.found, raised |-> FALSE])
                IN  IF s.raised THEN [found |-> s.found, calls |-> c, raised |-> TRUE]
                    ELSE ScanMetrics(Tail(out_json), p, in_filter,
                           [found |-> s.found, calls |-> c, raised |-> FALSE])

\* (mutant) poac_metric_found is set to False once, before the project loop, so
\* that every project after a covered one counts as covered
RECURSIVE ProjectMetricWalk_found_kept(_, _, _, _, _)
ProjectMetricWalk_found_kept(ps, in_filter, details_msg, st, found) ==
  IF ps = <<>> THEN st
  ELSE LET p == Head(ps)
           c == Append(st.calls, run_gcloud_cmd(Cmd_metrics, p))
           s == ScanMetrics(metrics[p], p, in_filter,
                  [found |-> found, calls |-> c, raised |-> FALSE])
       IN  IF s.raised THEN [details |-> st.details, calls |-> s.calls, raised |-> TRUE]
           ELSE ProjectMetricWalk_found_kept(Tail(ps), in_filter, details_msg,
                  [details |-> IF s.found = FALSE
                               THEN Append(st.details, Fmt(details_msg, <<p>>))
                               ELSE st.details,
                   calls |-> s.calls, raised |-> FALSE], s.found)
ProjectMetricWalk_found_once(ps, in_filter, details_msg, st) ==
  ProjectMetricWalk_found_kept(ps, in_filter, details_msg, st, FALSE)

\* "for p in projects": st is [details, calls, raised]
RECURSIVE ProjectMetricWalk(_, _, _, _)
ProjectMetricWalk(ps, in_filter, details_msg, st) ==
  IF ps = <<>> THEN st
  ELSE LET p == Head(ps)
           c == Append(st.calls, run_gcloud_cmd(Cmd_metrics, p))
           s == ScanMetrics(metrics[p], p, in_filter,
                  [found |-> FALSE, calls |-> c, raised |-> FALSE])
       IN  IF s.raised THEN [details |-> st.details, calls |-> s.calls, raised |-> TRUE]
           ELSE ProjectMetricWalk(Tail(ps), in_filter, details_msg,
                  [details |-> IF s.found = FALSE
                               THEN Append(st.details, Fmt(details_msg, <<p>>))
                               ELSE st.details,
                   calls |-> s.calls, raised |-> FALSE])

_check_log_metric_filter_and_alerts(in_filter, details_msg) ==
  ProjectMetricWalk(get_logging_enabled_projects, in_filter, details_msg,
    [details |-> <<>>, calls |-> <<Call("get_logging_enabled_projects", NoArg)>>,
     raised |-> FALSE])

\* a routine of rules 2.4 .. 2.11 from the correlator's outcome and its own
\* return statement
CorrelatorRule(ex, returned) ==
  IF ex.raised THEN Raise(ex.details, ex.calls) ELSE Result(returned, ex.details, ex.calls)

----------------------------------------------------------------------------
(* check2_4 .. check2_11: the eight rules built on the correlator *)

\* the details_msg of check2_4 .. check2_11, by catalog position
DetailsMsg(k) ==
  CASE k = 4 ->
         "Log metric filter and alerts do not exist for Project Ownership assignments/changes for project [%s]"
    [] k = 5 ->
         "Log metric filter and alerts do not exist for Audit Configuration changes for project [%s]"
    [] k = 6 ->
         "Log metric filter and alerts do not exist for Custom Role changes for project [%s]"
    [] k = 7 ->
         "Log metric filter and alerts do not exist for VPC Network Firewall Rule changes for project [%s]"
    [] k = 8 ->
         "Log metric filter and alerts do not exist for VPC Network Route changes for project [%s]"
    [] k = 9 ->
         "Log metric filter and alerts do not exist for VPC Network changes for project [%s]"
    [] k = 10 ->
         "Log metric filter and alerts do not exist for Cloud Storage IAM Permission changes for project [%s]"
    [] k = 11 ->
         "Log metric filter and alerts do not exist for SQL Instance Configuration changes for project [%s]"

POAC_METRIC_FILTER ==
  << "(protoPayload.serviceName=\"cloudresourcemanager.googleapis.com\")",
     " ", "AND", " ", "(ProjectOwnership", " ", "OR", " ",
     "projectOwnerInvitee)", " ", "OR", " ",
     "(protoPayload.serviceData.policyDelta.bindingDeltas.action=\"REMOVE\"",
     " ", "AND", " ",
     "protoPayload.serviceData.policyDelta.bindingDeltas.role=\"roles/owner\")",
     " ", "OR", " ",
     "(protoPayload.serviceData.policyDelta.bindingDeltas.action=\"ADD\"",
     " ", "AND", " ",
     "protoPayload.serviceData.policyDelta.bindingDeltas.role=\"roles/owner\")" >>
\* (mutant) "if len(details) >= 0": an issue whatever the details
check2_4_return_always(dets) ==
  create_issue("cis-gcp-bench-check-2.4",
    "2.4 [Level 1] Ensure log metric filter and alerts exist for project ownership assignments/changes (Scored)",
    JoinNL(dets), "4", "", "")
check2_4_return(dets) ==
  IF Len(dets) > 0
  THEN create_issue("cis-gcp-bench-check-2.4",
         "2.4 [Level 1] Ensure log metric filter and alerts exist for project ownership assignments/changes (Scored)",
         JoinNL(dets), "4", "", "")
  ELSE None
check2_4 ==
  LET ex == _check_log_metric_filter_and_alerts(POAC_METRIC_FILTER, DetailsMsg(4))
  IN  CorrelatorRule(ex, check2_4_return(ex.details))

ACC_METRIC_FILTER ==
  << "protoPayload.methodName=\"SetIamPolicy\"", " ", "AND", " ",
     "protoPayload.serviceData.policyDelta.auditConfigDeltas:*" >>
check2_5_return(dets) ==
  IF Len(dets) > 0
  THEN create_issue("cis-gcp-bench-check-2.5",
         "2.5 [Level 1] Ensure that the log metric filter and alerts exist for Audit Configuration changes (Scored)",
         JoinNL(dets), "4", "", "")
  ELSE None
check2_5 ==
  LET ex == _check_log_metric_filter_and_alerts(ACC_METRIC_FILTER, DetailsMsg(5))
  IN  CorrelatorRule(ex, check2_5_return(ex.details))

CRC_METRIC_FILTER ==
  << "resource.type=\"iam_role\"", " ", "AND", " ", "protoPayload.methodName",
     " ", "=", " ", "\"google.iam.admin.v1.CreateRole\"", " ", "OR", " ",
     "protoPayload.methodName=\"google.iam.admin.v1.DeleteRole\"", " ", "OR",
     " ", "protoPayload.methodName=\"google.iam.admin.v1.UpdateRole\"" >>
check2_6_return(dets) ==
  IF Len(dets) > 0
  THEN create_issue("cis-gcp-bench-check-2.6",
         "2.6 [Level 1] Ensure that the log metric filter and alerts exist for Custom Role changes (Scored)",
         JoinNL(dets), "4", "", "")
  ELSE None
check2_6 ==
  LET ex == _check_log_metric_filter_and_alerts(CRC_METRIC_FILTER, DetailsMsg(6))
  IN  CorrelatorRule(ex, check2_6_return(ex.details))

VPCNFRC_METRIC_FILTER ==
  << "resource.type=\"gce_firewall_rule\"", " ", "AND", " ",
     "jsonPayload.event_subtype=\"compute.firewalls.patch\"", " ", "OR", " ",
     "jsonPayload.event_subtype=\"compute.firewalls.insert\"" >>
check2_7_return(dets) ==
  IF Len(dets) > 0
  THEN create_issue("cis-gcp-bench-check-2.7",
         "2.7 [Level 1] Ensure that the log metric filter and alerts exist for VPC Network Firewall rule changes (Scored)",
         JoinNL(dets), "4", "", "")
  ELSE None
check2_7 ==
  LET ex == _check_log_metric_filter_and_alerts(VPCNFRC_METRIC_FILTER, DetailsMsg(7))
  IN  CorrelatorRule(ex, check2_7_return(ex.details))

VPCNRC_METRIC_FILTER ==
  << "resource.type=\"gce_route\"", " ", "AND", " ",
     "jsonPayload.event_subtype=\"compute.routes.delete\"", " ", "OR", " ",
     "jsonPayload.event_subtype=\"compute.routes.insert\"" >>
check2_8_return(dets) ==
  IF Len(dets) > 0
  THEN create_issue("cis-gcp-bench-check-2.8",
         "2.8 [Level 1] Ensure that the log metric filter and alerts exist for VPC network route changes (Scored)",
         JoinNL(dets), "4", "", "")
  ELSE None
check2_8 ==
  LET ex == _check_log_metric_filter_and_alerts(VPCNRC_METRIC_FILTER, DetailsMsg(8))
  IN  CorrelatorRule(ex, check2_8_return(ex.details))

VPCNC_METRIC_FILTER ==
  << "resource.type=gce_network", " ", "AND", " ",
     "jsonPayload.event_subtype=\"compute.networks.insert\"", " ", "OR", " ",
     "jsonPayload.event_subtype=\"compute.networks.patch\"", " ", "OR", " ",
     "jsonPayload.event_subtype=\"compute.networks.delete\"", " ", "OR", " ",
     "jsonPayload.event_subtype=\"compute.networks.removePeering\"", " ",
     "OR", " ", "jsonPayload.event_subtype=\"compute.networks.addPeering\"" >>
check2_9_return(dets) ==
  IF Len(dets) > 0
  THEN create_issue("cis-gcp-bench-check-2.9",
         "2.9 [Level 1] Ensure that the log metric filter and alerts exist for VPC network changes (Scored)",
         JoinNL(dets), "4", "", "")
  ELSE None
check2_9 ==
  LET ex == _check_log_metric_filter_and_alerts(VPCNC_METRIC_FILTER, DetailsMsg(9))
  IN  CorrelatorRule(ex, check2_9_return(ex.details))

CSIAMPC_METRIC_FILTER ==
  << "resource.type=gcs_bucket", " ", "AND", " ",
     "protoPayload.methodName=\"storage.setIamPermissions\"" >>
check2_10_return(dets) ==
  IF Len(dets) > 0
  THEN create_issue("cis-gcp-bench-check-2.10",
         "2.10 [Level 1] Ensure that the log metric filter and alerts exist for Cloud Storage IAM permission changes (Scored)",
         JoinNL(dets), "4", "", "")
  ELSE None
check2_10 ==
  LET ex == _check_log_metric_filter_and_alerts(CSIAMPC_METRIC_FILTER, DetailsMsg(10))
  IN  CorrelatorRule(ex, check2_10_return(ex.details))

SQLICC_METRIC_FILTER ==
  << "protoPayload.methodName=\"cloudsql.instances.update\"" >>
check2_11_return(dets) ==
  IF Len(dets) > 0
  THEN create_issue("cis-gcp-bench-check-2.11",
         "2.11 [Level 1] Ensure that the log metric filter and alerts exist for SQL instance configuration changes (Scored)",
         JoinNL(dets), "4", "", "")
  ELSE None
check2_11 ==
  LET ex == _check_log_metric_filter_and_alerts(SQLICC_METRIC_FILTER, DetailsMsg(11))
  IN  CorrelatorRule(ex, check2_11_return(ex.details))

----------------------------------------------------------------------------
(* run_checks *)

\* the rule ids, in the order of the statements of run_checks
Catalog ==
  <<"cis-gcp-bench-check-2.1", "cis-gcp-bench-check-2.2", "cis-gcp-bench-check-2.3",
    "cis-gcp-bench-check-2.4", "cis-gcp-bench-check-2.5", "cis-gcp-bench-check-2.6",
    "cis-gcp-bench-check-2.7", "cis-gcp-bench-check-2.8", "cis-gcp-bench-check-2.9",
    "cis-gcp-bench-check-2.10", "cis-gcp-bench-check-2.11">>

Rules == 1..Len(Catalog)

\* pc at "return config_issues", after it, and after an exception left run_checks
AtReturn == Len(Catalog) + 1
Returned == Len(Catalog) + 2
Raised == 0

\* the k-th statement of run_checks, gcp_cis_utils.append_issue(config_issues,
\* check2_k()): r is how check2_k() ended; an exception leaves run_checks
Statement(k, r) ==
  /\ pc = k
  /\ ret' = [ret EXCEPT ![k] = r.ret]
  /\ details' = [details EXCEPT ![k] = r.details]
  /\ calls' = calls \o [i \in 1..Len(r.calls) |->
                          [rule |-> k, fn |-> r.calls[i].fn, arg |-> r.calls[i].arg]]
  /\ IF r.raised
     THEN pc' = Raised /\ config_issues' = config_issues
     ELSE pc' = k + 1 /\ config_issues' = append_issue(config_issues, r.ret)
  /\ UNCHANGED <<env, main_vars, flow_vars>>

Run2_1 == Statement(1, check2_1)
Run2_2 == Statement(2, check2_2)
Run2_3 == Statement(3, check2_3)
\* (mutant) the fourth statement calls check2_5 instead of check2_4
Run2_4_wrong_routine == Statement(4, check2_5)
Run2_4 == Statement(4, check2_4)
Run2_5 == Statement(5, check2_5)
Run2_6 == Statement(6, check2_6)
Run2_7 == Statement(7, check2_7)
Run2_8 == Statement(8, check2_8)
Run2_9 == Statement(9, check2_9)
Run2_10 == Statement(10, check2_10)
Run2_11 == Statement(11, check2_11)

\* return config_issues
Return ==
  /\ pc = AtReturn
  /\ pc' = Returned
  /\ UNCHANGED <<config_issues, ret, details, calls>>
  /\ UNCHANGED <<env, main_vars, flow_vars>>

Next ==
  \/ Run2_1
  \/ Run2_2
  \/ Run2_3
  \/ Run2_4
  \/ Run2_5
  \/ Run2_6
  \/ Run2_7
  \/ Run2_8
  \/ Run2_9
  \/ Run2_10
  \/ Run2_11
  \/ Return

\* a local variable that has not been assigned yet
Unbound == [unbound |-> TRUE]

\* nothing was requested yet: exit_code and pj_json are assigned later, and
\* asset_id_list only by the push
InitFlow ==
  /\ server = None
  /\ log = <<>>
  /\ asset_id_list = Unbound
  /\ push_i = 0
  /\ pj_json = Unbound
  /\ exit_code = Unbound
  /\ exited = None

\* main is inside get_inventory: there are no assets yet
InitMain ==
  /\ mpc = "get_inventory"
  /\ args = [tag_critical |-> FALSE, tag |-> None]
  /\ assets = <<>>
  /\ heap = <<>>
  /\ before = [tags |-> <<>>, tag |-> <<>>]
  /\ InitFlow

\* run_checks is entered: config_issues = []
InitRun ==
  /\ pc = 1
  /\ config_issues = <<>>
  /\ ret = [k \in Rules |-> NotRun]
  /\ details = [k \in Rules |-> <<>>]
  /\ calls = <<>>
  /\ InitMain

(* twigs.py: tagging the discovered assets *)

\* a value that holds the list object at address a of the heap
Ref(a) == [ref |-> a]

\* add_asset_tags(assets, tags): tags is a reference, st is [assets, heap]
RECURSIVE add_asset_tags_loop(_, _, _)
add_asset_tags_loop(i, tags, st) ==
  IF i > Len(st.assets) THEN st
  ELSE LET asset == st.assets[i]
           existing_tags == IF Has(asset, "tags") THEN asset.tags ELSE None
       IN  add_asset_tags_loop(i + 1, tags,
             IF existing_tags = None
             THEN [st EXCEPT !.assets[i] = [id |-> asset.id, tags |-> tags]]
             ELSE [st EXCEPT !.heap[existing_tags.ref] = @ \o st.heap[tags.ref]])

add_asset_tags(assets_, tags, heap_) ==
  add_asset_tags_loop(1, tags, [assets |-> assets_, heap |-> heap_])

\* add_asset_criticality_tag(assets, asset_criticality): the list
\* [asset_criticality_tag] is a new object
add_asset_criticality_tag(assets_, asset_criticality, heap_) ==
  LET asset_criticality_tag == "CRITICALITY:" \o asset_criticality
  IN  add_asset_tags(assets_, Ref(Len(heap_) + 1),
                     Append(heap_, <<asset_criticality_tag>>))

\* if args.tag_critical: add_asset_criticality_tag(assets, '5')
TagCritical ==
  /\ mpc = "tag_critical"
  /\ LET st == IF args.tag_critical
               THEN add_asset_criticality_tag(assets, "5", heap)
               ELSE [assets |-> assets, heap |-> heap]
     IN  assets' = st.assets /\ heap' = st.heap
  /\ mpc' = "tag"
  /\ UNCHANGED <<args, before, env, run_vars, flow_vars>>

\* if args.tag: add_asset_tags(assets, args.tag)
Tag ==
  /\ mpc = "tag"
  /\ LET st == IF args.tag # None /\ heap[args.tag.ref] # <<>>
               THEN add_asset_tags(assets, args.tag, heap)
               ELSE [assets |-> assets, heap |-> heap]
     IN  assets' = st.assets /\ heap' = st.heap
  /\ mpc' = "out"
  /\ UNCHANGED <<args, before, env, run_vars, flow_vars>>

NextMain ==
  \/ TagCritical
  \/ Tag

(* twigs.py: pushing the assets *)

\* an optional value that is not None
Given(v) == [value |-> v]

\* the arguments requests.get, requests.post or requests.put was called with
Request(method, url, json) == [method |-> method, url |-> url, json |-> json]

\* the requests issued so far
Requests == SelectSeq(log, LAMBDA e : Has(e, "method"))

\* the status code of the response to the next request
NextStatus(k) == server.replies[Len(Requests) + k]

\* (mutant) the asset id is returned when the GET answered 200
push_asset_to_TW_get_decides(asset, args_, get_status, write_status) ==
  LET asset_url == "https://" \o args_.instance \o "/api/v2/assets/"
      auth_data == "?handle=" \o args_.handle \o "&token=" \o args_.token.value
                   \o "&format=json"
                   \o (IF args_.email_report THEN "&esr=true" ELSE "")
      asset_id == asset.id
      get == Request("GET", asset_url \o asset_id \o "/" \o auth_data, None)
  IN  IF get_status # 200
      THEN [requests |-> <<get, Request("POST", asset_url \o auth_data, asset)>>,
            ret |-> None]
      ELSE [requests |-> <<get, Request("PUT", asset_url \o asset_id \o "/" \o auth_data,
                                        asset)>>,
            ret |-> Given(asset_id)]

\* push_asset_to_TW(asset, args), the responses carrying get_status and
\* write_status: the requests it issues and what it returns
push_asset_to_TW(asset, args_, get_status, write_status) ==
  LET asset_url == "https://" \o args_.instance \o "/api/v2/assets/"
      auth_data == "?handle=" \o args_.handle \o "&token=" \o args_.token.value
                   \o "&format=json"
                   \o (IF args_.email_report THEN "&esr=true" ELSE "")
      asset_id == asset.id
      get == Request("GET", asset_url \o asset_id \o "/" \o auth_data, None)
  IN  IF get_status # 200
      THEN [requests |-> <<get, Request("POST", asset_url \o auth_data, asset)>>,
            ret |-> IF write_status = 200 THEN Given(asset_id) ELSE None]
      ELSE [requests |-> <<get, Request("PUT", asset_url \o asset_id \o "/" \o auth_data,
                                        asset)>>,
            ret |-> IF write_status = 200 THEN Given(asset_id) ELSE None]

\* if args.token is not None and len(args.token) > 0:
\*     asset_id_list = push_assets_to_TW(assets, args), which starts with
\*     asset_id_list = []
PushAssets ==
  /\ mpc = "push"
  /\ IF args.token # None /\ args.token.value # ""
     THEN /\ asset_id_list' = Given(<<>>) /\ push_i' = 1 /\ mpc' = "for_asset"
          /\ UNCHANGED pj_json
     ELSE /\ mpc' = "apply_policy" /\ pj_json' = None
          /\ UNCHANGED <<asset_id_list, push_i>>
  /\ UNCHANGED <<args, assets, heap, before, env, run_vars>>
  /\ UNCHANGED <<server, log, exit_code, exited>>

\* for asset in assets: one pass of the loop of push_assets_to_TW
PushAsset ==
  /\ mpc = "for_asset"
  /\ push_i <= Len(assets)
  /\ LET r == push_asset_to_TW(assets[push_i], args, NextStatus(1), NextStatus(2))
     IN  /\ log' = log \o r.requests
         /\ asset_id_list' = IF r.ret # None
                             THEN Given(Append(asset_id_list.value, r.ret.value))
                             ELSE asset_id_list
  /\ push_i' = push_i + 1
  /\ UNCHANGED <<mpc, args, assets, heap, before, env, run_vars>>
  /\ UNCHANGED <<server, pj_json, exit_code, exited>>

\* return asset_id_list, and pj_json = None
PushReturn ==
  /\ mpc = "for_asset"
  /\ push_i > Len(assets)
  /\ mpc' = "apply_policy"
  /\ pj_json' = None
  /\ UNCHANGED <<args, assets, heap, before, env, run_vars>>
  /\ UNCHANGED <<server, log, asset_id_list, push_i, exit_code, exited>>

(* twigs.py: the policy job and the scans *)

\* a call of a function of policy_lib, or of run_scan, and what it returned
LibCall(fn, arg, r) == [fn |-> fn, arg |-> arg, ret |-> r]

\* a line of the log
Logged(level, msg) == [level |-> level, msg |-> msg]

\* the calls of fn made so far
CallsOf(fn) == SelectSeq(log, LAMBDA e : Has(e, "fn") /\ e.fn = fn)

\* sys.exit(code), or the end of main: the process ends with a status
Exit(code) ==
  /\ exited' = Given(code)
  /\ mpc' = "exited"

\* if args.apply_policy is not None:
\*     policy_job_name = policy_lib.apply_policy(args.apply_policy, asset_id_list, args)
\* asset_id_list is unassigned when the push was skipped: the NameError is
\* caught by 'except Exception', which ends with sys.exit(1)
ApplyPolicy ==
  /\ mpc = "apply_policy"
  /\ IF args.apply_policy = None
     THEN mpc' = "run_scan" /\ UNCHANGED <<log, exited>>
     ELSE IF asset_id_list = Unbound
     THEN Exit(1) /\ UNCHANGED log
     ELSE /\ log' = Append(log, LibCall("apply_policy",
                                        <<args.apply_policy.value, asset_id_list.value>>,
                                        server.policy_job_name))
          /\ mpc' = "while_true"
          /\ UNCHANGED exited
  /\ UNCHANGED <<args, assets, heap, before, env, run_vars>>
  /\ UNCHANGED <<server, asset_id_list, push_i, pj_json, exit_code>>

\* the value policy_lib.apply_policy returned
policy_job_name == CallsOf("apply_policy")[1].ret

\* (mutant) the loop is left after the first poll, whatever its status
Poll_once ==
  /\ mpc = "while_true"
  /\ Len(CallsOf("is_policy_job_done")) < Len(server.polls)
  /\ LET answer == server.polls[Len(CallsOf("is_policy_job_done")) + 1]
         poll == LibCall("is_policy_job_done", policy_job_name,
                         <<answer.status, answer.pj_json>>)
     IN  /\ pj_json' = answer.pj_json
         /\ log' = log \o <<poll, LibCall("process_policy_job_actions", answer.pj_json,
                                         server.policy_exit)>>
         /\ exit_code' = server.policy_exit
         /\ mpc' = "run_scan"
  /\ UNCHANGED <<args, assets, heap, before, env, run_vars>>
  /\ UNCHANGED <<server, asset_id_list, push_i, exited>>

\* one pass of 'while True': time.sleep(60), then
\*     status, pj_json = policy_lib.is_policy_job_done(policy_job_name, args)
\*     if status: exit_code = policy_lib.process_policy_job_actions(pj_json); break
\* server.polls holds the answers of is_policy_job_done, MaxPolls at most
Poll ==
  /\ mpc = "while_true"
  /\ Len(CallsOf("is_policy_job_done")) < Len(server.polls)
  /\ LET answer == server.polls[Len(CallsOf("is_policy_job_done")) + 1]
         poll == LibCall("is_policy_job_done", policy_job_name,
                         <<answer.status, answer.pj_json>>)
     IN  /\ pj_json' = answer.pj_json
         /\ IF answer.status
            THEN /\ log' = log \o <<poll, LibCall("process_policy_job_actions",
                                                  answer.pj_json, server.policy_exit)>>
                 /\ exit_code' = server.policy_exit
                 /\ mpc' = "run_scan"
            ELSE /\ log' = Append(log, poll)
                 /\ UNCHANGED <<exit_code, mpc>>
  /\ UNCHANGED <<args, assets, heap, before, env, run_vars>>
  /\ UNCHANGED <<server, asset_id_list, push_i, exited>>

\* (mutant) a policy of type 'license' leaves run_lic_scan as it is
RECURSIVE run_scan_policies_va_only(_, _, _)
run_scan_policies_va_only(policy_json, i, flags) ==
  IF i > Len(policy_json) THEN flags
  ELSE run_scan_policies_va_only(policy_json, i + 1,
         IF policy_json[i].type = "vulnerability"
         THEN [flags EXCEPT !.run_va_scan = FALSE]
         ELSE flags)

\* for policy in pj_json['policy_json']: the flags [run_va_scan, run_lic_scan]
\* after the policies from the i-th on
RECURSIVE run_scan_policies(_, _, _)
run_scan_policies(policy_json, i, flags) ==
  IF i > Len(policy_json) THEN flags
  ELSE run_scan_policies(policy_json, i + 1,
         IF policy_json[i].type = "vulnerability"
         THEN [flags EXCEPT !.run_va_scan = FALSE]
         ELSE IF policy_json[i].type = "license"
         THEN [flags EXCEPT !.run_lic_scan = FALSE]
         ELSE flags)

\* scan_payload of the impact refresh: scan_payload['mode'] = 'email' if
\* args.email_report
va_scan_payload(asset_id_list_, args_) ==
  IF args_.email_report
  THEN [scan_type |-> "full", assets |-> asset_id_list_, mode |-> "email"]
  ELSE [scan_type |-> "full", assets |-> asset_id_list_]

\* scan_payload of the license compliance assessment
lic_scan_payload(asset_id_list_, args_) ==
  IF args_.email_report
  THEN [assets |-> asset_id_list_, license_scan |-> TRUE, mode |-> "email"]
  ELSE [assets |-> asset_id_list_, license_scan |-> TRUE]

\* run_scan(asset_id_list, pj_json, args), the responses carrying statuses[1]
\* and statuses[2]: the requests it issues and the lines it logs about them
run_scan(asset_id_list_, pj_json_, args_, statuses) ==
  IF args_.no_scan # TRUE
  THEN IF Len(asset_id_list_) = 0
       THEN <<Logged("info", "No assets to scan...")>>
       ELSE
         LET flags == IF pj_json_ # None
                      THEN run_scan_policies(pj_json_.policy_json, 1,
                             [run_va_scan |-> TRUE, run_lic_scan |-> TRUE])
                      ELSE [run_va_scan |-> TRUE, run_lic_scan |-> TRUE]
             scan_api_url == "https://" \o args_.instance \o "/api/v1/scans/?handle="
                             \o args_.handle \o "&token=" \o args_.token.value
                             \o "&format=json"
             va == IF flags.run_va_scan
                   THEN <<Request("POST", scan_api_url,
                                  va_scan_payload(asset_id_list_, args_)),
                          IF statuses[1] = 200
                          THEN Logged("info", "Started impact refresh...")
                          ELSE Logged("error", "Failed to start impact refresh")>>
                   ELSE <<>>
             lic_status == IF flags.run_va_scan THEN statuses[2] ELSE statuses[1]
             lic == IF flags.run_lic_scan /\ (args_.mode = "repo" \/ args_.mode = "file_repo")
                    THEN <<Request("POST", scan_api_url,
                                   lic_scan_payload(asset_id_list_, args_)),
                           IF lic_status = 200
                           THEN Logged("info", "Started license compliance assessment...")
                           ELSE Logged("error",
                                       "Failed to start license compliance assessment")>>
                    ELSE <<>>
         IN  va \o lic
  ELSE <<>>

\* if args.token is not None and len(args.token) > 0:
\*     run_scan(asset_id_list, pj_json, args)
\* --schedule is not given
RunScan ==
  /\ mpc = "run_scan"
  /\ IF args.token # None /\ args.token.value # ""
     THEN log' = log \o <<LibCall("run_scan", <<asset_id_list.value, pj_json>>, None)>>
                     \o run_scan(asset_id_list.value, pj_json, args,
                                 <<NextStatus(1), NextStatus(2)>>)
     ELSE UNCHANGED log
  /\ mpc' = "completed"
  /\ UNCHANGED <<args, assets, heap, before, env, run_vars>>
  /\ UNCHANGED <<server, asset_id_list, push_i, pj_json, exit_code, exited>>

\* logging.info('Run completed...'); if exit_code is not None:
\* sys.exit(exit_code); else main returns and the process ends with status 0
Completed ==
  /\ mpc = "completed"
  /\ IF exit_code # None THEN Exit(exit_code.value) ELSE Exit(0)
  /\ UNCHANGED <<args, assets, heap, before, env, run_vars>>
  /\ UNCHANGED <<server, log, asset_id_list, push_i, pj_json, exit_code>>

\* main from the push of the assets on
NextFlow ==
  \/ PushAssets
  \/ PushAsset
  \/ PushReturn
  \/ ApplyPolicy
  \/ Poll
  \/ RunScan
  \/ Completed

(* dast.py: the inventory of a web application *)

\* twigs.py, the dast sub-command: --plugin, choices=['arachni', 'skipfish'],
\* default='arachni'
plugin_choices == <<"arachni", "skipfish">>
plugin_default == "arachni"

dast_plugins == <<"skipfish">>

\* run_dast(args): the findings, and the plugin runs made; skipfish.run(args)
\* returns skipfish_findings
run_dast(args_, skipfish_findings) ==
  IF args_.plugin = "skipfish"
  THEN [findings |-> skipfish_findings, calls |-> <<LibCall("skipfish.run", args_, skipfish_findings)>>]
  ELSE [findings |-> <<>>, calls |-> <<>>]

\* asset_data of get_inventory(args); tags is the new list [args.url]
asset_data(args_, tags, findings) ==
  LET asset_id == IF args_.assetid = None THEN args_.url ELSE args_.assetid.value
      asset_name == IF args_.assetname = None THEN asset_id ELSE args_.assetname.value
  IN  [id |-> asset_id, name |-> asset_name, type |-> "Web Application",
       owner |-> args_.handle, products |-> <<>>, tags |-> tags,
       config_issues |-> findings]

\* elif args.mode == 'dast': assets = dast.get_inventory(args)
\* sys.exit(1) in get_inventory ends main: SystemExit is not an Exception
DastGetInventory ==
  /\ mpc = "get_inventory"
  /\ args.mode = "dast"
  /\ IF \A i \in DOMAIN dast_plugins : dast_plugins[i] # args.plugin
     THEN /\ log' = Append(log, Logged("error", "Not a supported DAST plugin"))
          /\ Exit(1)
          /\ UNCHANGED <<assets, heap, exit_code>>
     ELSE LET r == run_dast(args, server.findings)
          IN  /\ log' = Append(log, Logged("info", "Running DAST plugin for web application"))
                        \o r.calls
              /\ heap' = Append(heap, <<args.url>>)
              /\ assets' = <<asset_data(args, Ref(Len(heap) + 1), r.findings)>>
              /\ exit_code' = None
              /\ mpc' = "tag_critical"
              /\ UNCHANGED exited
  /\ UNCHANGED <<args, before, env, run_vars>>
  /\ UNCHANGED <<server, asset_id_list, push_i, pj_json>>

NextDast ==
  \/ DastGetInventory

----------------------------------------------------------------------------
(* The cloud states a run starts from *)

MaxProjects == 2
MaxOrgs == 2
MaxFolders == 1
MaxAcs == 2
MaxAlcs == 2
MaxMetrics == 2
MaxPolicies == 2

\* the lists over S of length at most n
SeqUpTo(S, n) == UNION {[1..k -> S] : k \in 0..n}

\* the ids prefix1 .. prefixn
Ids(prefix, n) == [i \in 1..n |-> prefix \o ToString(i)]

Range(s) == {s[i] : i \in DOMAIN s}

\* IAM policy documents
DataRead == [logType |-> "DATA_READ"]
DataWrite == [logType |-> "DATA_WRITE"]
Member_alice == Chars_user \o <<"a">>
Member_bob == Chars_user \o <<"b", ":", "c">>
Member_group == Chars_group \o <<"g">>
AllServices(alcs) == [service |-> "allServices", auditLogConfigs |-> alcs]
AuditDoc(acs) == [auditConfigs |-> acs]
NoAuditConfigs == [bindings |-> <<>>]
CompliantDoc == AuditDoc(<<AllServices(<<DataRead, DataWrite>>)>>)

AlcKinds ==
  { DataRead,
    [logType |-> "DATA_WRITE", exemptedMembers |-> <<>>],
    [logType |-> "ADMIN_READ", exemptedMembers |-> <<Member_alice>>],
    [logType |-> "DATA_READ", exemptedMembers |-> <<Member_group, Member_bob>>],
    [exemptedMembers |-> <<Member_alice, Member_bob>>] }

AcKinds ==
  { [auditLogConfigs |-> <<DataRead, DataWrite>>],
    [service |-> "compute.googleapis.com", auditLogConfigs |-> <<DataRead, DataWrite>>],
    [service |-> "allServices"],
    AllServices(<<>>),
    AllServices(<<DataRead, DataWrite>>),
    AllServices(<<[logType |-> "DATA_WRITE", exemptedMembers |-> <<Member_alice>>]>>) }

DocKinds ==
  { NoAuditConfigs,
    CompliantDoc,
    AuditDoc(<<>>),
    AuditDoc(<<AllServices(<<DataRead>>), [service |-> "compute.googleapis.com"]>>) }

\* the documents of the projects p1 .. pn, in key order
IamOf(docs) == [i \in 1..Len(docs) |-> [p |-> "p" \o ToString(i), doc |-> docs[i]]]

\* sinks
Sink(filter, destination) == [filter |-> filter, destination |-> destination]
CatchAll == "(empty filter)"
Filtered == "severity >= ERROR"
Dest_b1 == Chars_storage \o <<"b", "1">>
Dest_b2 == Chars_storage \o <<"b", "2">>
Dest_bq == Chars_bigquery \o <<"d", "1">>
BucketRefs == {"gs://b1", "gs://b2"}
NoPolicy == "has no Retention Policy"
Unlocked == "Retention Policy (UNLOCKED)"

SinkListKinds ==
  { <<>>,
    <<Sink(Filtered, Dest_b1)>>,
    <<Sink(Filtered, Dest_bq), Sink(CatchAll, Dest_b2)>> }

\* log metrics and alert policies
MetricType(k) == "logging.googleapis.com/user/m" \o ToString(k)
Metric(filter, type) == [filter |-> filter, metricDescriptor |-> [type |-> type]]
Condition(filter) == [conditionThreshold |-> [filter |-> filter]]
Policy(enabled, filters) ==
  [enabled |-> enabled, conditions |-> [i \in 1..Len(filters) |-> Condition(filters[i])]]

\* the filter rule k of the catalog looks for
TargetFilter(k) ==
  CASE k = 4 -> POAC_METRIC_FILTER
    [] k = 5 -> ACC_METRIC_FILTER
    [] k = 6 -> CRC_METRIC_FILTER
    [] k = 7 -> VPCNFRC_METRIC_FILTER
    [] k = 8 -> VPCNRC_METRIC_FILTER
    [] k = 9 -> VPCNC_METRIC_FILTER
    [] k = 10 -> CSIAMPC_METRIC_FILTER
    [] k = 11 -> SQLICC_METRIC_FILTER

CorrelatorRules == {k \in Rules : k >= 4}

\* one metric per rule of S, in catalog order, each with its own type
MetricsFor(S) ==
  LET ks == SelectSeq([i \in 1..Len(Catalog) |-> i], LAMBDA k : k \in S)
  IN  [i \in 1..Len(ks) |-> Metric(TargetFilter(ks[i]), MetricType(ks[i]))]

\* one enabled policy with a condition on the metric type of every rule
PolicyForAll ==
  Policy(TRUE, [i \in 1..(Len(Catalog) - 3) |-> MetricTypeFilter(MetricType(i + 3))])

\* the filter as the provider may report it: on several lines, with a trailing newline
Reflow(filter) ==
  <<" ">> \o [i \in 1..Len(filter) |-> IF i = 2 THEN "\n" ELSE filter[i]] \o <<"\n">>

MetricKinds ==
  { Metric(POAC_METRIC_FILTER, MetricType(1)),
    Metric(Reflow(POAC_METRIC_FILTER), MetricType(2)),
    Metric(ACC_METRIC_FILTER, MetricType(1)),
    Metric(<<"severity", " ", ">=", " ", "ERROR">>, MetricType(2)) }

PolicyKinds ==
  { Policy(TRUE, <<MetricTypeFilter(MetricType(1))>>),
    Policy(FALSE, <<MetricTypeFilter(MetricType(1))>>),
    Policy(TRUE, <<"metric.type=\"compute.googleapis.com/instance/cpu/utilization\"",
                   MetricTypeFilter(MetricType(2))>>),
    Policy(FALSE, <<MetricTypeFilter(MetricType(2)), MetricTypeFilter(MetricType(1))>>),
    Policy(TRUE, <<>>) }

\* a project's metrics and policies: covered for rule 2.4, without metric,
\* with a metric whose only policy is disabled
CorrKinds ==
  { [m |-> <<Metric(POAC_METRIC_FILTER, MetricType(1))>>,
     a |-> <<Policy(TRUE, <<MetricTypeFilter(MetricType(1))>>)>>],
    [m |-> <<>>, a |-> <<Policy(TRUE, <<MetricTypeFilter(MetricType(1))>>)>>],
    [m |-> <<Metric(POAC_METRIC_FILTER, MetricType(1))>>,
     a |-> <<Policy(FALSE, <<MetricTypeFilter(MetricType(1))>>)>>] }

\* the position of id in the list ids
IndexOf(ids, id) == CHOOSE i \in 1..Len(ids) : ids[i] = id

\* A full run over projects p1 .. pn.  The projects before the last one are
\* compliant; the last one decides the outcome of every rule: its IAM policy
\* document (2.1), its sinks (2.2; a sink without 'filter' makes check2_2
\* raise), the probe of the bucket b1 (2.3) and the set S of the rules
\* 2.4 .. 2.11 whose metric it has.
Init ==
  /\ InitRun
  /\ \E n \in 1..MaxProjects,
        doc \in {CompliantDoc, NoAuditConfigs},
        s \in {<<Sink(CatchAll, Dest_b1)>>, <<Sink(Filtered, Dest_b1)>>,
               <<[destination |-> Dest_b1]>>},
        out \in {{}, {NoPolicy}},
        S \in SUBSET CorrelatorRules :
       LET ps == Ids("p", n)
       IN  /\ orgs = <<"o1">>
           /\ folders = <<"f1">>
           /\ projects = ps
           /\ iam = IamOf([i \in 1..n |-> IF i = n THEN doc ELSE CompliantDoc])
           /\ sinks = [id \in {"o1", "f1"} \cup Range(ps) |->
                         IF id = "o1" THEN <<Sink(Filtered, Dest_bq)>>
                         ELSE IF id = "f1" THEN <<>>
                         ELSE IF id = ps[n] THEN s
                         ELSE <<Sink(CatchAll, Dest_b1)>>]
           /\ metrics = [p \in Range(ps) |->
                           MetricsFor(IF p = ps[n] THEN S ELSE CorrelatorRules)]
           /\ policies = [p \in Range(ps) |-> <<PolicyForAll>>]
           /\ probe = [b \in BucketRefs |-> IF b = "gs://b1" THEN out ELSE {}]

Spec == Init /\ [][Next]_vars

\* Runs that differ in the IAM policy documents: one project with any list of
\* auditConfigs entries, one project with one allServices entry over any list
\* of auditLogConfigs items, and several projects.
AuditIams ==
  {IamOf(<<doc>>) : doc \in {NoAuditConfigs}
                       \cup {AuditDoc(acs) : acs \in SeqUpTo(AcKinds, MaxAcs)}}
  \cup {IamOf(<<AuditDoc(<<AllServices(alcs)>>)>>) : alcs \in SeqUpTo(AlcKinds, MaxAlcs)}
  \cup {IamOf(docs) : docs \in SeqUpTo(DocKinds, MaxProjects)}

InitAudit ==
  /\ InitRun
  /\ iam \in AuditIams
  /\ orgs = <<"o1">>
  /\ folders = <<>>
  /\ projects = <<"p1">>
  /\ sinks = [id \in {"o1", "p1"} |-> <<Sink(Filtered, Dest_b1)>>]
  /\ metrics = [p \in {"p1"} |-> <<>>]
  /\ policies = [p \in {"p1"} |-> <<>>]
  /\ probe = [b \in BucketRefs |-> {}]

SpecAudit == InitAudit /\ [][Next]_vars

\* Runs that differ in the organizations, folders and projects and their sinks.
InitSinks ==
  /\ InitRun
  /\ \E no \in 0..MaxOrgs, nf \in 0..MaxFolders, np \in 0..MaxProjects :
       /\ orgs = Ids("o", no)
       /\ folders = Ids("f", nf)
       /\ projects = Ids("p", np)
  /\ sinks \in [Range(orgs) \cup Range(folders) \cup Range(projects) -> SinkListKinds]
  /\ iam = IamOf(<<CompliantDoc>>)
  /\ metrics = [p \in Range(projects) |-> <<>>]
  /\ policies = [p \in Range(projects) |-> <<>>]
  /\ probe = [b \in BucketRefs |-> IF b = "gs://b1" THEN {NoPolicy, Unlocked} ELSE {}]

SpecSinks == InitSinks /\ [][Next]_vars

\* Runs that differ in the log metrics and alert policies: one project with any
\* lists of metrics and of policies, and several projects.
CorrEnvs ==
  {<<[m |-> m, a |-> a]>> : m \in SeqUpTo(MetricKinds, MaxMetrics),
                            a \in SeqUpTo(PolicyKinds, MaxPolicies)}
  \cup SeqUpTo(CorrKinds, MaxProjects)

InitCorr ==
  /\ InitRun
  /\ \E cfg \in CorrEnvs :
       LET ps == Ids("p", Len(cfg))
       IN  /\ projects = ps
           /\ metrics = [p \in Range(ps) |-> cfg[IndexOf(ps, p)].m]
           /\ policies = [p \in Range(ps) |-> cfg[IndexOf(ps, p)].a]
  /\ orgs = <<>>
  /\ folders = <<>>
  /\ sinks = [p \in Range(projects) |-> <<Sink(CatchAll, Dest_bq)>>]
  /\ iam = IamOf(<<CompliantDoc>>)
  /\ probe = [b \in BucketRefs |-> {}]

SpecCorr == InitCorr /\ [][Next]_vars

\* Runs that differ in the destinations of the sinks and in the outputs of the
\* retention probe: an organization with any list of sinks over the three
\* destinations, a folder and a project that may name the bucket b1 again.
MaxSinks == 2

DestKinds == {Dest_b1, Dest_b2, Dest_bq}

InitBuckets ==
  /\ InitRun
  /\ orgs = <<"o1">>
  /\ folders = <<"f1">>
  /\ projects = <<"p1">>
  /\ \E ds \in SeqUpTo(DestKinds, MaxSinks),
        fs \in {<<>>, <<Sink(Filtered, Dest_b1)>>},
        qs \in {<<>>, <<Sink(CatchAll, Dest_b1)>>,
                <<Sink(Filtered, Dest_b2), Sink(CatchAll, Dest_b1)>>} :
       sinks = [id \in {"o1", "f1", "p1"} |->
                  IF id = "o1" THEN [i \in 1..Len(ds) |-> Sink(Filtered, ds[i])]
                  ELSE IF id = "f1" THEN fs ELSE qs]
  /\ \E o1 \in SUBSET {NoPolicy, Unlocked}, o2 \in {{}, {Unlocked}} :
       probe = [b \in BucketRefs |-> IF b = "gs://b1" THEN o1 ELSE o2]
  /\ iam = IamOf(<<CompliantDoc>>)
  /\ metrics = [p \in {"p1"} |-> <<>>]
  /\ policies = [p \in {"p1"} |-> <<>>]

SpecBuckets == InitBuckets /\ [][Next]_vars

\* Runs that differ in the filter string of one metric of the project p1:
\* every string up to MaxFilterLen over an alphabet with the target of rule
\* 2.11, the same in lower case, space and newline, and the target of rule
\* 2.5 with either case of AND, any of space, newline and tab between its
\* words and around it, and two newlines in a row.  The metric may stand
\* beside a metric with another filter, with or without a metricDescriptor.
MaxFilterLen == 3

FilterAlphabet ==
  { SQLICC_METRIC_FILTER[1], "protopayload.methodname=\"cloudsql.instances.update\"",
    " ", "\n" }

AccFilters ==
  { pre \o <<ACC_METRIC_FILTER[1], s1, w, s2, ACC_METRIC_FILTER[5]>> \o post :
      pre \in SeqUpTo({" ", "\n"}, 1), post \in SeqUpTo({" ", "\n"}, 1),
      s1 \in {" ", "\n", "\t"}, s2 \in {" ", "\n"}, w \in {"AND", "and"} }
  \cup { <<ACC_METRIC_FILTER[1], "\n", "\n", "AND", " ", ACC_METRIC_FILTER[5]>> }

OtherFilter == <<"severity", " ", ">=", " ", "ERROR">>

FilterEnvs ==
  {<<Metric(f, MetricType(1))>> : f \in SeqUpTo(FilterAlphabet, MaxFilterLen) \cup AccFilters}
  \cup {<<Metric(OtherFilter, MetricType(2)), Metric(f, MetricType(1))>> : f \in AccFilters}
  \cup {<<Metric(f, MetricType(1)), [filter |-> OtherFilter]>> : f \in AccFilters}

InitFilter ==
  /\ InitRun
  /\ orgs = <<>>
  /\ folders = <<>>
  /\ projects = <<"p1">>
  /\ sinks = [p \in {"p1"} |-> <<Sink(CatchAll, Dest_bq)>>]
  /\ iam = IamOf(<<CompliantDoc>>)
  /\ probe = [b \in BucketRefs |-> {}]
  /\ \E ms \in FilterEnvs : metrics = [p \in {"p1"} |-> ms]
  /\ \E t \in 1..2 :
       policies = [p \in {"p1"} |-> <<Policy(TRUE, <<MetricTypeFilter(MetricType(t))>>)>>]

SpecFilter == InitFilter /\ [][Next]_vars

\* Assets as get_inventory returns them and the command line: up to MaxAssets
\* assets, each without 'tags', with an empty list or with one tag, every list
\* an object of its own; --tag_critical given or not; --tag not given, given
\* once or given twice.
MaxAssets == 2

TagKinds == {None, [list |-> <<>>], [list |-> <<"x">>]}

\* the addresses of the lists of kinds[1..i], one per asset that has a list
RECURSIVE Allocated(_, _)
Allocated(kinds, i) ==
  IF i = 0 THEN 0
  ELSE Allocated(kinds, i - 1) + (IF kinds[i] = None THEN 0 ELSE 1)

InitTags ==
  /\ \E kinds \in SeqUpTo(TagKinds, MaxAssets) \ {<<>>},
        tc \in BOOLEAN,
        tg \in {None, [list |-> <<"t">>], [list |-> <<"t", "u">>]} :
       LET lists == SelectSeq(kinds, LAMBDA k : k # None)
       IN  /\ assets = [i \in DOMAIN kinds |->
                          IF kinds[i] = None THEN [id |-> "a" \o ToString(i)]
                          ELSE [id |-> "a" \o ToString(i), tags |-> Ref(Allocated(kinds, i))]]
           /\ heap = [a \in DOMAIN lists |-> lists[a].list]
                     \o (IF tg = None THEN <<>> ELSE <<tg.list>>)
           /\ args = [tag_critical |-> tc,
                      tag |-> IF tg = None THEN None ELSE Ref(Len(lists) + 1)]
           /\ before = [tags |-> [i \in DOMAIN kinds |->
                                    IF kinds[i] = None THEN <<>> ELSE kinds[i].list],
                        tag |-> IF tg = None THEN <<>> ELSE tg.list]
  /\ mpc = "tag_critical"
  /\ pc = Returned
  /\ config_issues = <<>>
  /\ ret = [k \in Rules |-> NotRun]
  /\ details = [k \in Rules |-> <<>>]
  /\ calls = <<>>
  /\ orgs = <<>> /\ folders = <<>> /\ projects = <<>> /\ iam = <<>>
  /\ sinks = <<>> /\ metrics = <<>> /\ policies = <<>> /\ probe = <<>>
  /\ InitFlow

SpecTags == InitTags /\ [][NextMain]_vars

\* The assets are tagged and main is at the push: up to MaxAssets assets, the
\* command line, and the status codes the responses will carry, in the order
\* of the requests. exit_code = None was assigned before the tagging.
Statuses == {200, 404, 500}

AssetIds == {"a1", "a2"}

\* the command line as parsed: --token, --email_report, --apply_policy,
\* --no_scan and the mode; --out is given when the token is missing or empty
\* and no policy is applied without a token (main exits otherwise), --schedule
\* is not given
FlowArgs(token, email_report, apply_policy, no_scan, mode) ==
  [instance |-> "tw", handle |-> "h", token |-> token, email_report |-> email_report,
   apply_policy |-> apply_policy, no_scan |-> no_scan, mode |-> mode,
   out |-> IF token = None \/ token = Given("") THEN Given("f") ELSE None,
   tag_critical |-> FALSE, tag |-> None]

\* what the services will answer: the status codes of the responses in the
\* order of the requests, the answers of is_policy_job_done in the order of the
\* polls, what apply_policy and process_policy_job_actions return
Server(replies, polls, policy_exit) ==
  [replies |-> replies, polls |-> polls, policy_exit |-> policy_exit,
   policy_job_name |-> "job"]

\* the JSON of a policy job: up to MaxJobPolicies policies, each with a type
MaxJobPolicies == 2

PolicyTypes == {"vulnerability", "license", "code_secret"}

JobDocs == {[policy_json |-> [i \in DOMAIN types |-> [type |-> types[i]]]] :
              types \in SeqUpTo(PolicyTypes, MaxJobPolicies)}

\* the answers of is_policy_job_done: up to MaxPolls polls, the job not done
\* in all but the last
MaxPolls == 2

NotDone == {[status |-> FALSE, pj_json |-> None],
            [status |-> FALSE, pj_json |-> [policy_json |-> <<>>]]}

Done(docs) == {[status |-> TRUE, pj_json |-> d] : d \in docs}

PollAnswers(docs) ==
  {polls \in SeqUpTo(NotDone \cup Done(docs), MaxPolls) :
     \A k \in DOMAIN polls : polls[k].status => k = Len(polls)}

AtPush(ids, args_, server_) ==
  /\ assets = [i \in DOMAIN ids |-> [id |-> ids[i]]]
  /\ args = args_
  /\ server = server_
  /\ mpc = "push"
  /\ heap = <<>>
  /\ before = [tags |-> <<>>, tag |-> <<>>]
  /\ log = <<>>
  /\ asset_id_list = Unbound
  /\ push_i = 0
  /\ pj_json = Unbound
  /\ exit_code = None
  /\ exited = None
  /\ pc = Returned
  /\ config_issues = <<>>
  /\ ret = [k \in Rules |-> NotRun]
  /\ details = [k \in Rules |-> <<>>]
  /\ calls = <<>>
  /\ orgs = <<>> /\ folders = <<>> /\ projects = <<>> /\ iam = <<>>
  /\ sinks = <<>> /\ metrics = <<>> /\ policies = <<>> /\ probe = <<>>

\* the assets and the status codes of the push vary, or the command line does
InitPush ==
  \/ \E ids \in SeqUpTo(AssetIds, MaxAssets) \ {<<>>} :
       \E replies \in [1..(2 * Len(ids)) -> Statuses] :
         AtPush(ids, FlowArgs(Given("tok"), FALSE, None, FALSE, "repo"),
                Server(replies \o <<200, 200>>, <<>>, None))
  \/ \E replies \in [1..2 -> Statuses],
        token \in {None, Given(""), Given("tok")},
        email_report \in BOOLEAN,
        apply_policy \in {None, Given("pol")} :
       /\ token = None => apply_policy = None
       /\ AtPush(<<"a1">>, FlowArgs(token, email_report, apply_policy, FALSE, "repo"),
                 Server(replies \o <<200, 200>>,
                        <<[status |-> TRUE, pj_json |-> [policy_json |-> <<>>]]>>,
                        Given(2)))

SpecPush == InitPush /\ [][NextFlow]_vars

\* A policy is applied or not: the answers of is_policy_job_done, what
\* process_policy_job_actions returns, the token, --no_scan and the outcome of
\* the push vary. Every statement of main is executed once it is reached:
\* time.sleep(60) returns and the calls come back.
InitPolicy ==
  \E replies \in {<<200, 200>>, <<404, 200>>, <<404, 500>>},
     token \in {Given(""), Given("tok")},
     apply_policy \in {None, Given("pol")},
     no_scan \in BOOLEAN,
     polls \in PollAnswers({[policy_json |-> <<>>],
                            [policy_json |-> <<[type |-> "vulnerability"]>>]}),
     policy_exit \in {None, Given(0), Given(2)} :
    AtPush(<<"a1">>, FlowArgs(token, FALSE, apply_policy, no_scan, "repo"),
           Server(replies \o <<200, 200>>, polls, policy_exit))

SpecPolicy == InitPolicy /\ [][NextFlow]_vars /\ WF_vars(NextFlow)

\* The inputs of run_scan vary: the ids the push returned (each write answered
\* with 200 or 500), --no_scan, the mode, the JSON of the policy job (or no
\* policy applied), the token, and the status codes of the scan requests.
RECURSIVE PushReplies(_)
PushReplies(written) ==
  IF written = <<>> THEN <<>>
  ELSE <<200, IF Head(written) THEN 200 ELSE 500>> \o PushReplies(Tail(written))

InitScan ==
  \E written \in SeqUpTo(BOOLEAN, MaxAssets) \ {<<>>},
     scans \in [1..2 -> {200, 500}],
     token \in {Given(""), Given("tok")},
     no_scan \in BOOLEAN,
     mode \in {"repo", "file_repo", "aws"},
     job \in {None} \cup JobDocs :
    AtPush([i \in DOMAIN written |-> "a" \o ToString(i)],
           FlowArgs(token, FALSE, IF job = None THEN None ELSE Given("pol"), no_scan, mode),
           Server(PushReplies(written) \o scans,
                  IF job = None THEN <<>> ELSE <<[status |-> TRUE, pj_json |-> job]>>,
                  None))

SpecScan == InitScan /\ [][NextFlow]_vars

\* the plugin reports up to MaxFindings findings
MaxFindings == 2

\* main is at the inventory of the dast mode: --url and --assetid are given
\* (get_inventory also takes an args without assetid), --assetname and
\* --plugin are given or not, and the plugin has findings to report
InitDast ==
  /\ \E plugin \in {None} \cup {Given(plugin_choices[i]) : i \in DOMAIN plugin_choices},
        url \in {"u1", "u2"},
        assetid \in {None, Given("a1"), Given("u1")},
        assetname \in {None, Given("n1"), Given("a1")},
        findings \in SeqUpTo({"f1"}, MaxFindings) :
       /\ args = [mode |-> "dast", url |-> url,
                  plugin |-> IF plugin = None THEN plugin_default ELSE plugin.value,
                  assetid |-> assetid, assetname |-> assetname, handle |-> "h",
                  tag_critical |-> FALSE, tag |-> None]
       /\ server = [findings |-> findings]
  /\ mpc = "get_inventory"
  /\ assets = <<>>
  /\ heap = <<>>
  /\ before = [tags |-> <<>>, tag |-> <<>>]
  /\ log = <<>>
  /\ asset_id_list = Unbound
  /\ push_i = 0
  /\ pj_json = Unbound
  /\ exit_code = Unbound
  /\ exited = None
  /\ pc = Returned
  /\ config_issues = <<>>
  /\ ret = [k \in Rules |-> NotRun]
  /\ details = [k \in Rules |-> <<>>]
  /\ calls = <<>>
  /\ orgs = <<>> /\ folders = <<>> /\ projects = <<>> /\ iam = <<>>
  /\ sinks = <<>> /\ metrics = <<>> /\ policies = <<>> /\ probe = <<>>

SpecDast == InitDast /\ [][NextDast]_vars

----------------------------------------------------------------------------
(* Properties *)

\* the number of positions of s that hold x
Count(s, x) == Cardinality({i \in DOMAIN s : s[i] = x})

\* routine k has returned
HasReturned(k) == ret[k] # NotRun

\* the position of a rule id in the catalog
CatalogIndex(id) == CHOOSE k \in Rules : Catalog[k] = id

\* the routines that returned an issue, in catalog order
IssuesReturned ==
  LET ks == SelectSeq([k \in Rules |-> k], LAMBDA k : HasReturned(k) /\ ret[k] # None)
  IN  [i \in 1..Len(ks) |-> ret[ks[i]]]

\* C1: whatever rules produce a finding, the list run_checks builds holds the
\* findings in catalog order: every id is a catalog id, the catalog positions
\* are strictly increasing (so at most one finding per rule), and the list is
\* exactly the issues the routines returned so far.
C1_CatalogOrder ==
  /\ \A i \in DOMAIN config_issues : config_issues[i].id \in Range(Catalog)
  /\ \A i, j \in DOMAIN config_issues :
       i < j => CatalogIndex(config_issues[i].id) < CatalogIndex(config_issues[j].id)
  /\ config_issues = IssuesReturned

\* a run that returned findings of rules 2.1 and 2.11 and of some but not all
\* rules between them
C1_Witness ==
  /\ pc = Returned
  /\ ret[1] # None /\ ret[11] # None
  /\ ret[2] = None /\ ret[4] = None /\ ret[5] # None /\ ret[10] = None
  /\ Len(config_issues) >= 3

\* C2: a routine returns an issue iff the list `details` it accumulated is not
\* empty, and an issue never has empty details.
C2_FindingIffDetails ==
  \A k \in Rules :
    HasReturned(k) =>
      /\ (ret[k] # None) <=> (Len(details[k]) > 0)
      /\ ret[k] # None => ret[k].details # <<>> /\ ret[k].id = Catalog[k]

\* a finished run in which one routine of each kind returned an issue and another
\* routine returned None
C2_Witness ==
  /\ pc = Returned
  /\ ret[1] # None /\ Len(details[1]) > 0
  /\ ret[2] # None /\ ret[3] = None /\ details[3] = <<>>
  /\ ret[4] = None /\ ret[7] # None /\ Len(details[7]) = 1

\* metric i of project p has the target filter, once normalized
MetricMatches(p, i, in_filter) == NormalizeFilter(metrics[p][i].filter) = in_filter

\* policy j of project p is enabled and has a condition on the metric type mdt
PolicyCovers(p, j, mdt) ==
  /\ policies[p][j].enabled
  /\ \E c \in DOMAIN policies[p][j].conditions :
       policies[p][j].conditions[c].conditionThreshold.filter = MetricTypeFilter(mdt)

\* project p has a metric with the target filter and an enabled alert policy on
\* that metric's type
Covered(p, in_filter) ==
  \E i \in DOMAIN metrics[p] :
    /\ MetricMatches(p, i, in_filter)
    /\ \E j \in DOMAIN policies[p] : PolicyCovers(p, j, metrics[p][i].metricDescriptor.type)

\* C3: for every rule of 2.4 .. 2.11 and every project, the project has no
\* violation line iff some metric of the project has the (normalized) target
\* filter and some enabled policy of the project has a condition on
\* metric.type="<that metric's type>", wherever they stand in their lists; a
\* project without such a pair has exactly one line, which names it.
C3_CoverageIffEnabledMatch ==
  \A k \in CorrelatorRules :
    HasReturned(k) =>
      \A n \in DOMAIN projects :
        LET p == projects[n]
            covered == Covered(p, TargetFilter(k))
            lines == Count(details[k], Fmt(DetailsMsg(k), <<p>>))
        IN  /\ covered <=> lines = 0
            /\ ~covered => lines = 1

\* the project is covered for rule 2.4 by its second metric and its second
\* policy only, and check2_4 returned None
C3_Witness ==
  /\ pc = Returned
  /\ projects = <<"p1">>
  /\ Len(metrics["p1"]) = 2 /\ Len(policies["p1"]) = 2
  /\ ~MetricMatches("p1", 1, POAC_METRIC_FILTER)
  /\ MetricMatches("p1", 2, POAC_METRIC_FILTER)
  /\ ~PolicyCovers("p1", 1, metrics["p1"][2].metricDescriptor.type)
  /\ PolicyCovers("p1", 2, metrics["p1"][2].metricDescriptor.type)
  /\ policies["p1"][1].enabled = FALSE
  /\ details[4] = <<>> /\ ret[4] = None

\* the violation lines of the projects of ps that are not covered, in the order of ps
RECURSIVE UncoveredLines(_, _, _)
UncoveredLines(ps, in_filter, details_msg) ==
  IF ps = <<>> THEN <<>>
  ELSE (IF Covered(Head(ps), in_filter) THEN <<>> ELSE <<Fmt(details_msg, <<Head(ps)>>)>>)
       \o UncoveredLines(Tail(ps), in_filter, details_msg)

\* C4: the correlator returns one line per uncovered project and none for a
\* covered one, in the order of the project list.
C4_OneLinePerUncoveredProject ==
  \A k \in CorrelatorRules :
    HasReturned(k) =>
      /\ details[k] = UncoveredLines(projects, TargetFilter(k), DetailsMsg(k))
      /\ Len(details[k]) = Cardinality({n \in DOMAIN projects : ~Covered(projects[n], TargetFilter(k))})

\* two projects, the first covered for rule 2.4 and the second not
C4_Witness ==
  /\ pc = Returned
  /\ Len(projects) = 2
  /\ Covered(projects[1], POAC_METRIC_FILTER)
  /\ ~Covered(projects[2], POAC_METRIC_FILTER)
  /\ details[4] = <<Fmt(DetailsMsg(4), <<projects[2]>>)>>
  /\ Len(details[5]) = 2

\* the sink listing of a scope holds a catch-all sink
HasCatchAllSink(id) == \E j \in DOMAIN sinks[id] : sinks[id][j].filter = "(empty filter)"
OrgCatchAll == \E i \in DOMAIN orgs : HasCatchAllSink(orgs[i])
FolderCatchAll == \E i \in DOMAIN folders : HasCatchAllSink(folders[i])

\* C5: a catch-all sink of any organization, or else of any folder, makes
\* check2_2 return None whatever the sinks below that level are.
C5_CatchAllAboveMasksProjects ==
  HasReturned(2) =>
    /\ OrgCatchAll => ret[2] = None /\ details[2] = <<>>
    /\ (~OrgCatchAll /\ FolderCatchAll) => ret[2] = None /\ details[2] = <<>>

\* the second organization has a catch-all sink, a project has no sink at all,
\* and check2_2 returned None
C5_Witness ==
  /\ pc = Returned
  /\ Len(orgs) = 2 /\ ~HasCatchAllSink(orgs[1]) /\ HasCatchAllSink(orgs[2])
  /\ ~FolderCatchAll
  /\ Len(projects) = 2 /\ sinks[projects[2]] = <<>> /\ ~HasCatchAllSink(projects[1])
  /\ ret[2] = None

\* the accessor calls check2_2 issued, in order
Calls2_2 == SelectSeq(calls, LAMBDA c : c.rule = 2)

IsFolderLevel(c) ==
  \/ c.fn = "get_all_folders"
  \/ c.fn = "run_gcloud_cmd" /\ c.arg.msg = Cmd_sinks_folder
IsProjectLevel(c) ==
  \/ c.fn = "get_logging_enabled_projects"
  \/ c.fn = "run_gcloud_cmd" /\ c.arg.msg = Cmd_sinks_project

\* the first scope of ids whose listing holds a catch-all sink
FirstWithCatchAll(ids) ==
  ids[CHOOSE i \in DOMAIN ids :
        HasCatchAllSink(ids[i]) /\ \A j \in 1..(i - 1) : ~HasCatchAllSink(ids[j])]

\* C6: once check2_2 has found a catch-all sink in an organization's listing,
\* that listing is its last accessor call: no folder and no project is listed;
\* once it has found one in a folder's listing, that listing is its last call:
\* no project is listed.
C6_NoCallAfterCatchAll ==
  HasReturned(2) =>
    LET cs == Calls2_2
        last == cs[Len(cs)]
    IN  /\ OrgCatchAll =>
             /\ \A i \in DOMAIN cs : ~IsFolderLevel(cs[i]) /\ ~IsProjectLevel(cs[i])
             /\ last.fn = "run_gcloud_cmd"
             /\ last.arg = Fmt(Cmd_sinks_org, <<FirstWithCatchAll(orgs)>>)
        /\ (~OrgCatchAll /\ FolderCatchAll) =>
             /\ \A i \in DOMAIN cs : ~IsProjectLevel(cs[i])
             /\ last.fn = "run_gcloud_cmd"
             /\ last.arg = Fmt(Cmd_sinks_folder, <<FirstWithCatchAll(folders)>>)

\* the first of two organizations has a catch-all sink; there are a folder and
\* projects, and check2_2 issued two calls: the organization list and the
\* listing of the first organization
C6_Witness ==
  /\ pc = Returned
  /\ Len(orgs) = 2 /\ HasCatchAllSink(orgs[1])
  /\ Len(folders) = 1 /\ Len(projects) = 2
  /\ Len(Calls2_2) = 2
  /\ ret[2] = None

\* the lines of the projects of ps without catch-all sink, in the order of ps
RECURSIVE NoSinkLines(_)
NoSinkLines(ps) ==
  IF ps = <<>> THEN <<>>
  ELSE (IF HasCatchAllSink(Head(ps)) THEN <<>> ELSE <<Fmt(Msg_2_2, <<Head(ps)>>)>>)
       \o NoSinkLines(Tail(ps))

\* C7: without catch-all sink at organization and folder level, the details of
\* check2_2 hold one line per project without catch-all sink, and no other
\* line, in the order of the project list.
C7_OneLinePerProjectWithoutSink ==
  (HasReturned(2) /\ ~OrgCatchAll /\ ~FolderCatchAll) =>
    details[2] = NoSinkLines(projects)

\* organizations and a folder without catch-all sink; the first project has a
\* catch-all sink behind another sink, the second has none
C7_Witness ==
  /\ pc = Returned
  /\ Len(orgs) = 2 /\ Len(folders) = 1 /\ ~OrgCatchAll /\ ~FolderCatchAll
  /\ Len(projects) = 2
  /\ Len(sinks[projects[1]]) = 2 /\ HasCatchAllSink(projects[1])
  /\ sinks[projects[1]][1].filter # "(empty filter)"
  /\ ~HasCatchAllSink(projects[2])
  /\ details[2] = <<Fmt(Msg_2_2, <<projects[2]>>)>>

\* the auditConfigs entry names all services
IsAllServices(ac) == Has(ac, "service") /\ ac.service = "allServices"

\* C8: for a project whose auditConfigs is present, the line "... not
\* configured for all services ..." is in the details of check2_1 iff no entry
\* of auditConfigs has service "allServices".
C8_AllServicesLineIffNoEntry ==
  HasReturned(1) =>
    \A n \in DOMAIN iam :
      Has(iam[n].doc, "auditConfigs") =>
        LET acs == iam[n].doc.auditConfigs
        IN  (Count(details[1], Fmt(Msg_2_1_NotAllServices, <<iam[n].p>>)) > 0)
              <=> ~\E i \in DOMAIN acs : IsAllServices(acs[i])

\* the lines of dets that name project p (every message ends with the project)
LinesFor(dets, p) == SelectSeq(dets, LAMBDA l : l.args[Len(l.args)] = p)

\* C9: a project whose IAM policy document has no auditConfigs has exactly one
\* line in the details of check2_1, "Cloud Audit Logging is not configured for
\* project [p]".
C9_MissingAuditConfigsOneLine ==
  HasReturned(1) =>
    \A n \in DOMAIN iam :
      ~Has(iam[n].doc, "auditConfigs") =>
        LinesFor(details[1], iam[n].p) = <<Fmt(Msg_2_1_NotConfigured, <<iam[n].p>>)>>

\* two projects: the first without auditConfigs, the second with lines of its own
C9_Witness ==
  /\ pc = Returned
  /\ Len(iam) = 2
  /\ ~Has(iam[1].doc, "auditConfigs")
  /\ Has(iam[2].doc, "auditConfigs")
  /\ Len(LinesFor(details[1], iam[2].p)) >= 2
  /\ Len(LinesFor(details[1], iam[1].p)) = 1

\* the allServices entries of acs that have an auditLogConfigs list without
\* item of log type lt
EntriesWithout(acs, lt) ==
  {i \in DOMAIN acs :
     /\ IsAllServices(acs[i])
     /\ Has(acs[i], "auditLogConfigs")
     /\ ~\E a \in DOMAIN acs[i].auditLogConfigs :
          /\ Has(acs[i].auditLogConfigs[a], "logType")
          /\ acs[i].auditLogConfigs[a].logType = lt}

\* C10: every allServices entry with an auditLogConfigs list gives the
\* DATA_READ line iff no item of the list has logType DATA_READ and the
\* DATA_WRITE line iff no item has logType DATA_WRITE, each decided on its own;
\* no other entry gives either line.
C10_ReadWriteLinesIndependent ==
  HasReturned(1) =>
    \A n \in DOMAIN iam :
      LET p == iam[n].p
          acs == IF Has(iam[n].doc, "auditConfigs") THEN iam[n].doc.auditConfigs ELSE <<>>
      IN  /\ Count(details[1], Fmt(Msg_2_1_NoDataRead, <<p>>))
               = Cardinality(EntriesWithout(acs, "DATA_READ"))
          /\ Count(details[1], Fmt(Msg_2_1_NoDataWrite, <<p>>))
               = Cardinality(EntriesWithout(acs, "DATA_WRITE"))

\* one allServices entry whose list has a DATA_WRITE item (and another item) but
\* no DATA_READ item: the DATA_READ line alone
C10_Witness ==
  /\ pc = Returned
  /\ Len(iam) = 1 /\ Has(iam[1].doc, "auditConfigs")
  /\ Len(iam[1].doc.auditConfigs) = 1
  /\ IsAllServices(iam[1].doc.auditConfigs[1])
  /\ Has(iam[1].doc.auditConfigs[1], "auditLogConfigs")
  /\ Len(iam[1].doc.auditConfigs[1].auditLogConfigs) = 2
  /\ EntriesWithout(iam[1].doc.auditConfigs, "DATA_READ") = {1}
  /\ EntriesWithout(iam[1].doc.auditConfigs, "DATA_WRITE") = {}
  /\ Count(details[1], Fmt(Msg_2_1_NoDataRead, <<"p1">>)) = 1
  /\ Count(details[1], Fmt(Msg_2_1_NoDataWrite, <<"p1">>)) = 0

\* the part of a member string that follows its "user:" prefix
AfterUserPrefix(em) == Str(SubSeq(em, Len(Chars_user) + 1, Len(em)))

\* one line per member of ems that starts with "user:", naming the whole
\* substring after the prefix
RECURSIVE ExemptionsOfMembers(_, _, _)
ExemptionsOfMembers(ems, lt, p) ==
  IF ems = <<>> THEN <<>>
  ELSE (IF StartsWith(Head(ems), Chars_user)
        THEN <<Fmt(Msg_2_1_Exempted, <<AfterUserPrefix(Head(ems)), lt, p>>)>>
        ELSE <<>>)
       \o ExemptionsOfMembers(Tail(ems), lt, p)

RECURSIVE ExemptionsOfItems(_, _)
ExemptionsOfItems(alcs, p) ==
  IF alcs = <<>> THEN <<>>
  ELSE (IF Has(Head(alcs), "exemptedMembers")
        THEN ExemptionsOfMembers(Head(alcs).exemptedMembers, LogTypeStr(Head(alcs)), p)
        ELSE <<>>)
       \o ExemptionsOfItems(Tail(alcs), p)

RECURSIVE ExemptionsOfEntries(_, _)
ExemptionsOfEntries(acs, p) ==
  IF acs = <<>> THEN <<>>
  ELSE (IF IsAllServices(Head(acs)) /\ Has(Head(acs), "auditLogConfigs")
        THEN ExemptionsOfItems(Head(acs).auditLogConfigs, p)
        ELSE <<>>)
       \o ExemptionsOfEntries(Tail(acs), p)

\* the lines of dets written with the message msg
LinesWith(dets, msg) == SelectSeq(dets, LAMBDA l : l.msg = msg)

\* C11: the exemption lines of a project in the details of check2_1 are, item
\* by item of every allServices entry's auditLogConfigs and whatever the
\* item's logType, one line per exempted member that starts with "user:",
\* naming the whole substring after "user:", the item's logType and the
\* project; other members give no line, and the DATA_READ / DATA_WRITE lines
\* have no part in it.
C11_ExemptionNamesWholeIdentity ==
  HasReturned(1) =>
    \A n \in DOMAIN iam :
      LET p == iam[n].p
          acs == IF Has(iam[n].doc, "auditConfigs") THEN iam[n].doc.auditConfigs ELSE <<>>
      IN  LinesWith(LinesFor(details[1], p), Msg_2_1_Exempted) = ExemptionsOfEntries(acs, p)

\* the bucket reference a storage destination is probed under
RefOf(destination) ==
  CASE destination = Dest_b1 -> "gs://b1"
    [] destination = Dest_b2 -> "gs://b2"

\* the scopes check2_3 lists the sinks of, in the order it walks them
Scopes == orgs \o folders \o projects

\* the storage-bucket destinations of the sinks of all scopes, in walk order
RECURSIVE BucketDestinations(_)
BucketDestinations(ids) ==
  IF ids = <<>> THEN <<>>
  ELSE SelectSeq([i \in DOMAIN sinks[Head(ids)] |-> sinks[Head(ids)][i].destination],
                 LAMBDA d : d \in {Dest_b1, Dest_b2})
       \o BucketDestinations(Tail(ids))

\* the bucket references check2_3 has probed, in the order of the probes
Probed ==
  LET cs == SelectSeq(calls, LAMBDA c : c.rule = 3 /\ c.fn = "run_cmd")
  IN  [i \in DOMAIN cs |-> cs[i].arg.args[1]]

\* C12: every bucket that is the destination of some sink is probed once by
\* check2_3, however many sinks name it, and each of its two violation lines
\* is in the details at most once: once iff the probe output has the marker.
C12_EachBucketProbedOnce ==
  HasReturned(3) =>
    \A d \in Range(BucketDestinations(Scopes)) :
      LET b == RefOf(d)
      IN  /\ Count(Probed, b) = 1
          /\ Count(details[3], Fmt(Msg_2_3_NoPolicy, <<b>>))
               = (IF NoPolicy \in probe[b] THEN 1 ELSE 0)
          /\ Count(details[3], Fmt(Msg_2_3_NotLocked, <<b>>))
               = (IF Unlocked \in probe[b] THEN 1 ELSE 0)

\* the number of detail lines the probes before the i-th one have given
RECURSIVE LinesBefore(_)
LinesBefore(i) ==
  IF i = 1 THEN 0 ELSE LinesBefore(i - 1) + Cardinality(probe[Probed[i - 1]])

\* the detail lines of check2_3 that the i-th probe has appended
ProbeBlock(i) ==
  SubSeq(details[3], LinesBefore(i) + 1, LinesBefore(i) + Cardinality(probe[Probed[i]]))

\* C13: check2_3 probes exactly the sinks whose destination starts with
\* "storage.googleapis.com/", in walk order, each under "gs://" followed by
\* the rest of the destination; every probe appends, after the lines already
\* there, the "No retention policy" line iff its output contains "has no
\* Retention Policy" and the "not locked" line iff it contains "Retention
\* Policy (UNLOCKED)": as many lines as markers, two when both are present.
C13_ProbeLinesPerMarker ==
  HasReturned(3) =>
    /\ Probed = [i \in DOMAIN BucketDestinations(Scopes) |->
                   RefOf(BucketDestinations(Scopes)[i])]
    /\ Len(details[3]) = LinesBefore(Len(Probed) + 1)
    /\ \A i \in DOMAIN Probed :
         LET b == Probed[i]
         IN  Range(ProbeBlock(i))
               = {Fmt(Msg_2_3_NoPolicy, <<b>>) : x \in probe[b] \cap {NoPolicy}}
                 \cup {Fmt(Msg_2_3_NotLocked, <<b>>) : x \in probe[b] \cap {Unlocked}}

\* a sink to BigQuery that is not probed, then the bucket b2 with an unlocked
\* policy, then the bucket b1 whose probe output has both markers: two lines
\* for b1 after the line of b2
C13_Witness ==
  /\ pc = Returned
  /\ Len(sinks["o1"]) = 2
  /\ sinks["o1"][1].destination = Dest_bq
  /\ sinks["o1"][2].destination = Dest_b2
  /\ Len(sinks["f1"]) = 1 /\ sinks["p1"] = <<>>
  /\ probe["gs://b1"] = {NoPolicy, Unlocked}
  /\ probe["gs://b2"] = {Unlocked}
  /\ Probed = <<"gs://b2", "gs://b1">>
  /\ details[3] = <<Fmt(Msg_2_3_NotLocked, <<"gs://b2">>),
                    Fmt(Msg_2_3_NoPolicy, <<"gs://b1">>),
                    Fmt(Msg_2_3_NotLocked, <<"gs://b1">>)>>

\* the routine of rule k has raised and run_checks has stopped in it: the
\* rules before k have returned, rule k and the rules after it have not
Failed(k) ==
  /\ pc = Raised
  /\ \A j \in Rules : HasReturned(j) <=> j < k

\* C14: a failure in the routine of rule k does not abort run_checks: there is
\* no state in which the run has stopped in a routine that raised, leaving
\* the rules after it unexecuted and no sequence of findings returned.
C14_FailureDoesNotAbort ==
  \A k \in Rules : ~Failed(k)

\* the number of executions of the routine of rule k: the unbroken runs of
\* accessor calls of rule k in the log (every routine starts with a call)
Executions(k) ==
  Cardinality({i \in DOMAIN calls :
                 calls[i].rule = k /\ (i = 1 \/ calls[i - 1].rule # k)})

\* run_checks is over: it has returned or an exception has left it
RunOver == pc \in {Returned, Raised}

\* C15: the routines are executed one after another in catalog order: the
\* accessor calls are in the order of their rules, a rule issues a call only
\* after every rule before it has returned, no rule is executed twice and in
\* a run that is over every rule has been executed exactly once; the findings
\* sequence holds the findings of the rules returned so far, each appended
\* when its rule returned.
C15_EachRuleOnceInOrder ==
  /\ \A i, j \in DOMAIN calls : i < j => calls[i].rule <= calls[j].rule
  /\ \A i \in DOMAIN calls : \A k \in Rules : k < calls[i].rule => HasReturned(k)
  /\ \A k \in Rules : Executions(k) <= 1
  /\ RunOver => \A k \in Rules : Executions(k) = 1
  /\ config_issues = IssuesReturned

\* the number of accessor calls of rule k made with the command cmd for project p
Listings(k, cmd, p) ==
  Cardinality({i \in DOMAIN calls :
                 /\ calls[i].rule = k
                 /\ calls[i].fn = "run_gcloud_cmd"
                 /\ calls[i].arg = Fmt(cmd, <<p>>)})

\* C17: an invocation of the correlator that has returned has issued, for
\* every project, one log-metric listing and one alert-policy listing,
\* whatever the number of the project's metrics whose filter matches; the
\* correlator queries of the run are at most 8 x 2 x P.
C17_TwoQueriesPerProject ==
  /\ \A k \in CorrelatorRules :
       HasReturned(k) =>
         \A n \in DOMAIN projects :
           /\ Listings(k, Cmd_metrics, projects[n]) = 1
           /\ Listings(k, Cmd_policies, projects[n]) = 1
  /\ Cardinality({i \in DOMAIN calls :
                    calls[i].rule \in CorrelatorRules /\ calls[i].fn = "run_gcloud_cmd"})
       <= 8 * 2 * Len(projects)

\* filter is target between surrounding whitespace, each of its newlines
\* standing for a space of target: position by position, with no other change
EqualAfterTrim(filter, target) ==
  \E i \in 1..(Len(filter) + 1) :
    LET j == i + Len(target) - 1
    IN  /\ j <= Len(filter)
        /\ \A a \in 1..(i - 1) : filter[a] \in Whitespace
        /\ \A a \in (j + 1)..Len(filter) : filter[a] \in Whitespace
        /\ i <= j => filter[i] \notin Whitespace /\ filter[j] \notin Whitespace
        /\ \A a \in 1..Len(target) :
             target[a] = (IF filter[i + a - 1] = "\n" THEN " " ELSE filter[i + a - 1])

\* the metrics of project p treated as matching by rule k
MatchingMetrics(k, p) ==
  {i \in DOMAIN metrics[p] : EqualAfterTrim(metrics[p][i].filter, TargetFilter(k))}

\* C18: a metric is treated as matching by a correlator rule iff its filter,
\* with the surrounding whitespace trimmed and every embedded newline replaced
\* by one space, equals the target filter position by position (case
\* included).  Only a matching metric has its type read: the alert policies
\* are listed once per matching metric, the project is free of a violation
\* line iff an enabled policy has a condition on the type of a matching
\* metric, and a metric that does not match may lack its metricDescriptor.
C18_MatchIffNormalizedEqual ==
  /\ pc # Raised
  /\ \A k \in CorrelatorRules :
       HasReturned(k) =>
         \A n \in DOMAIN projects :
           LET p == projects[n]
           IN  /\ Listings(k, Cmd_policies, p) = Cardinality(MatchingMetrics(k, p))
               /\ Count(details[k], Fmt(DetailsMsg(k), <<p>>)) = 0
                    <=> \E i \in MatchingMetrics(k, p), j \in DOMAIN policies[p] :
                          PolicyCovers(p, j, metrics[p][i].metricDescriptor.type)

\* the target of rule 2.5 reported on two lines between a newline and a space,
\* after a metric with another filter: one policy listing and no violation line
C18_Witness ==
  /\ pc = Returned
  /\ Len(metrics["p1"]) = 2
  /\ metrics["p1"][1].filter = OtherFilter
  /\ metrics["p1"][2].filter
       = <<"\n", ACC_METRIC_FILTER[1], "\n", "AND", " ", ACC_METRIC_FILTER[5], " ">>
  /\ MatchingMetrics(5, "p1") = {2}
  /\ Listings(5, Cmd_policies, "p1") = 1
  /\ details[5] = <<>>
  /\ ret[5] = None

\* the allServices entries of acs that have no auditLogConfigs list
EntriesWithoutList(acs) ==
  {i \in DOMAIN acs : IsAllServices(acs[i]) /\ ~Has(acs[i], "auditLogConfigs")}

\* C19: check2_1 returns, without raising, on IAM policy documents that lack
\* auditConfigs, service, auditLogConfigs, logType or exemptedMembers.  Every
\* allServices entry without an auditLogConfigs list gives one line "Cloud
\* Audit Logging is not configured properly for project [p]" and nothing
\* else: the DATA_READ and DATA_WRITE lines come only from the entries that
\* have a list, and the project has no line beyond those of its entries.
C19_MissingFieldsHandled ==
  /\ pc # 1 => HasReturned(1)
  /\ HasReturned(1) =>
       \A n \in DOMAIN iam :
         Has(iam[n].doc, "auditConfigs") =>
           LET p == iam[n].p
               acs == iam[n].doc.auditConfigs
               dets == LinesFor(details[1], p)
           IN  /\ Count(dets, Fmt(Msg_2_1_NotProperly, <<p>>))
                    = Cardinality(EntriesWithoutList(acs))
               /\ Count(dets, Fmt(Msg_2_1_NoDataRead, <<p>>))
                    = Cardinality(EntriesWithout(acs, "DATA_READ"))
               /\ Count(dets, Fmt(Msg_2_1_NoDataWrite, <<p>>))
                    = Cardinality(EntriesWithout(acs, "DATA_WRITE"))
               /\ Len(dets)
                    = Cardinality({i \in DOMAIN acs : ~IsAllServices(acs[i])})
                      + Cardinality(EntriesWithoutList(acs))
                      + Cardinality(EntriesWithout(acs, "DATA_READ"))
                      + Cardinality(EntriesWithout(acs, "DATA_WRITE"))
                      + Len(ExemptionsOfEntries(acs, p))

\* an allServices entry without auditLogConfigs, then an entry without
\* service: one "not configured properly" line, one "not configured for all
\* services" line, and check2_1 returned an issue
C19_Witness ==
  /\ pc = Returned
  /\ Len(iam) = 1 /\ Has(iam[1].doc, "auditConfigs")
  /\ Len(iam[1].doc.auditConfigs) = 2
  /\ EntriesWithoutList(iam[1].doc.auditConfigs) = {1}
  /\ ~Has(iam[1].doc.auditConfigs[2], "service")
  /\ details[1] = <<Fmt(Msg_2_1_NotProperly, <<"p1">>),
                    Fmt(Msg_2_1_NotAllServices, <<"p1">>)>>
  /\ ret[1] # None

\* the tags of asset i
TagsOf(i) == IF Has(assets[i], "tags") THEN heap[assets[i].tags.ref] ELSE <<>>

\* the tags the call of add_asset_criticality_tag adds, those the call of
\* add_asset_tags adds
CriticalityTags == IF args.tag_critical THEN <<"CRITICALITY:5">> ELSE <<>>
GivenTags == before.tag

\* C20: after the calls of add_asset_criticality_tag and add_asset_tags that
\* main makes, the tags of every asset are its tags before the calls followed
\* by the tags of each call, once; the list given with --tag is as it was.
C20_TagsAppendedOncePerCall ==
  mpc = "out" =>
    /\ \A i \in DOMAIN assets : TagsOf(i) = before.tags[i] \o CriticalityTags \o GivenTags
    /\ args.tag # None => heap[args.tag.ref] = before.tag

\* the requests issued before run_scan was called
PushRequests ==
  LET called == {k \in DOMAIN log : Has(log[k], "fn") /\ log[k].fn = "run_scan"}
      last == IF called = {} THEN Len(log) ELSE (CHOOSE k \in called : TRUE) - 1
  IN  SelectSeq(SubSeq(log, 1, last), LAMBDA e : Has(e, "method"))

\* the two requests of the push of assets[j]
PushOf(j) == SubSeq(PushRequests, 2 * j - 1, 2 * j)

\* the url of a request names the asset id
NamesAsset(url, id) ==
  url = "https://" \o args.instance \o "/api/v2/assets/" \o id \o "/?handle="
        \o args.handle \o "&token=" \o args.token.value \o "&format=json"
        \o (IF args.email_report THEN "&esr=true" ELSE "")

\* the ids of assets[1..n] whose write request was answered with status 200
RECURSIVE WrittenIds(_)
WrittenIds(n) ==
  IF n = 0 THEN <<>>
  ELSE IF server.replies[2 * n] = 200
       THEN Append(WrittenIds(n - 1), assets[n].id)
       ELSE WrittenIds(n - 1)

\* C21: the push of an asset is one GET that names it followed by exactly one
\* write request that carries it, a PUT when the GET was answered with status
\* 200 and a POST otherwise; asset_id_list holds, in the order of the assets,
\* the ids of the assets whose write was answered with status 200; and
\* push_assets_to_TW returns only after every asset was pushed.
C21_OneGetOneWritePerAsset ==
  asset_id_list # Unbound =>
    /\ Len(PushRequests) = 2 * (push_i - 1)
    /\ \A j \in 1..(push_i - 1) :
         /\ PushOf(j)[1].method = "GET"
         /\ NamesAsset(PushOf(j)[1].url, assets[j].id)
         /\ PushOf(j)[2].method = (IF server.replies[2 * j - 1] = 200 THEN "PUT" ELSE "POST")
         /\ PushOf(j)[2].json = assets[j]
    /\ asset_id_list.value = WrittenIds(push_i - 1)
    /\ mpc # "for_asset" => push_i = Len(assets) + 1

\* two assets were pushed, the first was created and its write failed, the
\* second was updated: only the second id is returned
C21_Witness ==
  /\ mpc = "apply_policy"
  /\ Len(assets) = 2
  /\ Len(PushRequests) = 4
  /\ PushRequests[2].method = "POST" /\ server.replies[2] # 200
  /\ PushRequests[4].method = "PUT" /\ server.replies[4] = 200
  /\ asset_id_list = Given(<<assets[2].id>>)

\* the polls made so far, and whether one of them reported the job done
PollsMade == CallsOf("is_policy_job_done")
ReportedDone == \E k \in DOMAIN PollsMade : PollsMade[k].ret[1]

\* the job will be reported done: an answer still to come says so
DoneAhead ==
  \E k \in DOMAIN server.polls : k > Len(PollsMade) /\ server.polls[k].status

\* the calls of process_policy_job_actions made so far
Processed == CallsOf("process_policy_job_actions")

\* run_scan is called only after a poll that reported the job done
ScanAfterDone ==
  \A k \in DOMAIN log :
    Has(log[k], "fn") /\ log[k].fn = "run_scan" =>
      \E j \in 1..(k - 1) :
        Has(log[j], "fn") /\ log[j].fn = "is_policy_job_done" /\ log[j].ret[1]

\* process_policy_job_actions is called once the job is reported done, once,
\* with the JSON of the last poll, which is the only one that reported it done
ProcessedOnceOnFinalPoll ==
  /\ Len(Processed) = (IF ReportedDone THEN 1 ELSE 0)
  /\ ReportedDone =>
       /\ \A k \in DOMAIN PollsMade : PollsMade[k].ret[1] <=> k = Len(PollsMade)
       /\ Processed[1].arg = PollsMade[Len(PollsMade)].ret[2]
       /\ pj_json = Processed[1].arg

\* C22: with --apply_policy, run_scan is called only after a poll reported
\* the job done, main is past the polling loop only after such a poll, and
\* process_policy_job_actions is called exactly once, when that poll is made and
\* with its JSON; when a poll still to come reports the job done the loop is
\* left; and when process_policy_job_actions returned a code that is not None
\* main exits with it.
C22_PollUntilDone ==
  /\ [](args.apply_policy # None =>
          /\ ScanAfterDone
          /\ ProcessedOnceOnFinalPoll
          /\ (CallsOf("apply_policy") # <<>> /\ mpc # "while_true" => ReportedDone)
          /\ (exited # None /\ ReportedDone /\ Processed[1].ret # None
                => exited = Processed[1].ret))
  /\ ((mpc = "while_true" /\ DoneAhead) ~> (mpc # "while_true"))
  /\ ((ReportedDone /\ Processed[1].ret # None) ~> (exited # None))

\* the job was reported done by the second poll, process_policy_job_actions
\* returned 2, the scan was requested after it and main exited with 2
C22_Witness ==
  /\ mpc = "exited"
  /\ Len(PollsMade) = 2
  /\ ~PollsMade[1].ret[1] /\ PollsMade[2].ret[1]
  /\ Len(Processed) = 1
  /\ Len(CallsOf("run_scan")) = 1
  /\ exited = Given(2)

\* the requests issued since run_scan was called
ScanRequests == SubSeq(Requests, Len(PushRequests) + 1, Len(Requests))

IsImpactRefresh(r) == Has(r.json, "scan_type") /\ r.json.scan_type = "full"
IsLicenseScan(r) == Has(r.json, "license_scan") /\ r.json.license_scan

\* the JSON of the policy job has a policy of this type
HasPolicyOfType(job, type) ==
  job # None /\ \E i \in DOMAIN job.policy_json : job.policy_json[i].type = type

\* C23: run_scan issues no request with --no_scan or without asset ids;
\* otherwise it issues one impact refresh exactly when the job JSON has no
\* policy of type 'vulnerability' and one license request exactly when the
\* mode is 'repo' or 'file_repo' and the job JSON has no policy of type
\* 'license', whatever the impact refresh was answered with; the impact
\* refresh comes first and there are two requests at most.
C23_ScanRequests ==
  \A k \in DOMAIN CallsOf("run_scan") :
    mpc \in {"completed", "exited"} =>
      LET ids == CallsOf("run_scan")[k].arg[1]
          job == CallsOf("run_scan")[k].arg[2]
          va == SelectSeq(ScanRequests, IsImpactRefresh)
          lic == SelectSeq(ScanRequests, IsLicenseScan)
      IN  IF args.no_scan \/ ids = <<>>
          THEN ScanRequests = <<>>
          ELSE /\ Len(va) = (IF HasPolicyOfType(job, "vulnerability") THEN 0 ELSE 1)
               /\ Len(lic) = (IF args.mode \in {"repo", "file_repo"}
                                 /\ ~HasPolicyOfType(job, "license") THEN 1 ELSE 0)
               /\ ScanRequests = va \o lic
               /\ \A i \in DOMAIN ScanRequests : ScanRequests[i].json.assets = ids

\* the impact refresh was answered with 500 and the license request was
\* issued after it
C23_Witness ==
  /\ mpc = "completed"
  /\ Len(ScanRequests) = 2
  /\ IsImpactRefresh(ScanRequests[1])
  /\ server.replies[Len(PushRequests) + 1] = 500
  /\ IsLicenseScan(ScanRequests[2])

\* the runs of a DAST plugin made so far
PluginRuns == SelectSeq(log, LAMBDA e : Has(e, "fn") /\ e.fn = "skipfish.run")

\* C24: after dast.get_inventory was called with a --plugin value that the
\* parser accepts, main has not exited, the plugin was run, and assets is one
\* record whose id is args.assetid (args.url when that is None), whose name is
\* args.assetname (the id when that is None) and whose config_issues are the
\* findings of the plugin.
C24_AcceptedPluginReturnsAsset ==
  mpc # "get_inventory" /\ args.plugin \in Range(plugin_choices) =>
    /\ exited = None
    /\ Len(PluginRuns) = 1
    /\ Len(assets) = 1
    /\ assets[1].id = (IF args.assetid = None THEN args.url ELSE args.assetid.value)
    /\ assets[1].name = (IF args.assetname = None THEN assets[1].id
                         ELSE args.assetname.value)
    /\ assets[1].config_issues = server.findings

====
